---- MODULE Spec2Model ----
(***************************************************************************)
(* g_poll() and GWakeup of frida-glib (glib/gpoll.c, glib/gwakeup.c).      *)
(*                                                                         *)
(* One polling thread calls g_poll() and g_wakeup_acknowledge(); the       *)
(* threads of Signallers call g_wakeup_signal().  The backend is chosen at *)
(* build time (#if in the source): here it is chosen by Init and never     *)
(* changes afterwards.                                                     *)
(*   "none"   : G_OS_NONE   g_poll + atomic flag / token GWakeup           *)
(*   "kqueue" : HAVE_KQUEUE g_poll + EVFILT_USER GWakeup                   *)
(*   "select" : select() emulation of g_poll + eventfd / pipe GWakeup      *)
(*   "win32"  : G_OS_WIN32  g_poll, with and without worker threads        *)
(***************************************************************************)
EXTENDS Integers, Sequences, FiniteSets, TLC

(* ---------------------------------------------------------------- bounds *)
MaxSignals == 2
MaxPending == 3
MaxReady == 2
MAXIMUM_WAIT_OBJECTS == 3
PipeCapacity == 32
WakeFd == 3
MaxTime == 1000
TickUs == 1000

(* ------------------------------------------------------------- constants *)
G_TIME_SPAN_MILLISECOND == 1000
G_MAXINT64 == 2147483647
G_WAIT_INFINITE == -1
G_WAIT_WAKEUP_HANDLE == -2
G_KQUEUE_WAKEUP_HANDLE == -3
BufferSize == 16
EventfdSize == 8
INFINITE == -1
G_WIN32_MSG_HANDLE == 19981206
PlainFd == 5

G_IO_IN == "IN"
G_IO_OUT == "OUT"
G_IO_PRI == "PRI"
G_IO_HUP == "HUP"
G_IO_ERR == "ERR"
NULL == 0

Wakeups == {1}
Signallers == {1, 2}
Tokens == {1, 2}
Timeouts == {-1, 0, 1}
KqFds == {3}
MAXIMUM_WAIT_OBJECTS_PER_THREAD == MAXIMUM_WAIT_OBJECTS - 1
Threads == 1..MAXIMUM_WAIT_OBJECTS

VARIABLES
  backend,      \* the build's backend
  spuriousHook, \* the platform's g_wait_sleep may return without wake or timeout
  hooks,        \* g_wait_sleep and g_wait_wake: "platform" (overridden) or "weak"
  now,          \* g_get_monotonic_time (us)
  fds,          \* the caller's GPollFD array
  pc,           \* position of the polling thread
  i,            \* g_poll: loop index (1-based)
  timeout,      \* g_poll: timeout argument (ms)
  ready,        \* g_poll: ready
  ret,          \* value returned by the g_poll call that has just returned
  tok,          \* g_poll: token = &op (G_OS_NONE)
  deadline,     \* g_poll: deadline    (G_OS_NONE)
  slept,        \* g_poll: slept       (G_OS_NONE)
  timeout_us,   \* g_poll: timeout_us  (G_OS_NONE)
  signalled,    \* GWakeup.signalled   (G_OS_NONE)
  token,        \* GWakeup.token       (G_OS_NONE)
  wakeAt,       \* g_wait_sleep: time at which the park times out
  woken,        \* g_wait_sleep: g_wait_wake ran on the parked token
  wkq,          \* GWakeup.kq          (HAVE_KQUEUE)
  pending,      \* GWakeup.pending     (HAVE_KQUEUE)
  mutex,        \* GWakeup.mutex: "free", or the kind of thread that owns it (HAVE_KQUEUE)
  kq,           \* g_poll: kq, the queue of the call (HAVE_KQUEUE)
  kqUser,       \* the queue's EVFILT_USER entry of each wakeup
  wfds,         \* GWakeup.fds[2]      (eventfd or pipe)
  wbuf,         \* the eventfd's counter, or the bytes held by the pipe
  ioReady,      \* the kernel's readiness of PlainFd
  aw,           \* g_wakeup_acknowledge: wakeup argument
  hReady,       \* the handles that are signalled               (G_OS_WIN32)
  msgReady,     \* input is waiting in the thread's message queue
  nthreads,     \* g_poll: nthreads, 0 on the path without threads
  wpc,          \* position of each worker thread
  wret,         \* exit code of each worker thread
  stopSet,      \* stop_event is signalled
  cready,       \* g_poll: what the wait for the first thread returned
  hStable,      \* history: no handle or message arrived during the call
  spc,          \* position of each signalling thread
  sw,           \* g_wakeup_signal: wakeup argument
  st,           \* g_wakeup_signal: t (G_OS_NONE)
  sigCount,     \* history: signals that took effect since the last acknowledge
  dirty,        \* history: a signal call overlapped or followed the last acknowledge
  absorbed,     \* history: value of sigCount when the last acknowledge began
  concurrent,   \* history: two signal calls overlapped since the last acknowledge
  sigAt,        \* history: where the call in flight was when the wakeup got signalled
  nPass,        \* history: readiness passes of the call in flight
  nSleep        \* history: g_wait_sleep invocations of the call in flight

build == <<backend, spuriousHook, hooks>>
call == <<fds, pc, i, timeout, ready, ret>>
noneCall == <<tok, deadline, slept, timeout_us>>
noneWakeup == <<signalled, token>>
hookVars == <<wakeAt, woken>>
kqWakeup == <<wkq, pending, mutex>>
kqQueue == <<kq, kqUser>>
unixWakeup == <<wfds, wbuf>>
winEnv == <<hReady, msgReady>>
winCall == <<nthreads, wpc, wret, stopSet, cready, hStable>>
winVars == <<winEnv, winCall>>
sigVars == <<spc, sw, st>>
ackHistory == <<sigCount, dirty, absorbed, concurrent>>
callHistory == <<sigAt, nPass, nSleep>>

vars == <<build, now, call, noneCall, noneWakeup, hookVars, kqWakeup, kqQueue,
          unixWakeup, ioReady, aw, winVars, sigVars, ackHistory, callHistory>>

\* What the code of one backend never touches.
noneFrame == <<build, kqWakeup, kqQueue, unixWakeup, ioReady, aw, winVars>>
kqFrame == <<build, now, noneCall, noneWakeup, hookVars, unixWakeup, winVars>>
unixFrame == <<build, now, noneCall, noneWakeup, hookVars, kqWakeup, kqQueue, winVars>>
winFrame == <<build, now, noneCall, noneWakeup, hookVars, kqWakeup, kqQueue,
              unixWakeup, ioReady, aw, sigVars, ackHistory>>

(* ------------------------------------------------------------- poll sets *)
WakeEntry(w) ==
  [fd |-> G_WAIT_WAKEUP_HANDLE, events |-> {G_IO_IN}, revents |-> {}, user_data |-> w]

PlainEntry ==
  [fd |-> PlainFd, events |-> {G_IO_IN}, revents |-> {}, user_data |-> NULL]

PollSetsNone ==
  {<<PlainEntry>>} \cup {<<WakeEntry(w)>> : w \in Wakeups}
    \cup {<<PlainEntry, WakeEntry(w)>> : w \in Wakeups}

\* The caller's array is reused from call to call: revents keep what the
\* previous call left at the same index.
Reuse(old, new) ==
  [k \in 1..Len(new) |->
     IF k <= Len(old) THEN [new[k] EXCEPT !.revents = old[k].revents] ELSE new[k]]

IsWakeup(p) == p.fd \in {G_WAIT_WAKEUP_HANDLE, G_KQUEUE_WAKEUP_HANDLE}

\* The wakeup an entry stands for, or NULL: the handle next to the sentinel,
\* or the wakeup whose fds[0] the entry polls.
WakeupOf(p) ==
  IF IsWakeup(p) THEN p.user_data
  ELSE IF \E w \in Wakeups : wfds[w][1] = p.fd
         THEN CHOOSE w \in Wakeups : wfds[w][1] = p.fd
         ELSE NULL

WakeupsIn(f) == {WakeupOf(f[k]) : k \in 1..Len(f)} \ {NULL}

\* Entries whose revents were filled in.
NonEmpty(f) == Cardinality({k \in 1..Len(f) : f[k].revents # {}})

\* revents of the entries of wakeup w.
Reported(f, w) == {f[k].revents : k \in {j \in 1..Len(f) : WakeupOf(f[j]) = w}}

MidSignal(w) == \E s \in Signallers : spc[s] # "idle" /\ sw[s] = w

InCall == pc \notin {"idle", "ret"}

(* ---------------------------------------------------------------- history *)
\* Where the call in flight is, for a signal that lands now.
PollPos ==
  CASE pc = "n_reg" -> "reg"
    [] pc = "n_pass" /\ ~slept -> "check"
    [] pc = "n_sleep" -> "presleep"
    [] pc = "n_parked" -> "parked"
    [] pc = "k_register" -> "reg"
    [] pc \in {"k_realize", "k_realize_cs"} -> "check"
    [] pc = "k_collect" -> "parked"
    [] pc = "u_select" -> "parked"
    [] OTHER -> "late"

\* A signal on w takes effect.
SignalEffect(w) ==
  /\ sigCount' = [sigCount EXCEPT ![w] = @ + 1]
  /\ sigAt' = IF InCall /\ w \in WakeupsIn(fds) /\ sigAt[w] = "none"
                THEN [sigAt EXCEPT ![w] = PollPos]
                ELSE sigAt

\* A signal call on w begins.
SignalBegin(s, w) ==
  /\ dirty' = [dirty EXCEPT ![w] = TRUE]
  /\ concurrent' = [concurrent EXCEPT ![w] = (dirty[w] /\ @) \/ MidSignal(w)]

\* An acknowledge call on w begins.
AcknowledgeBegin(w) ==
  /\ absorbed' = [absorbed EXCEPT ![w] = sigCount[w]]
  /\ dirty' = [dirty EXCEPT ![w] = MidSignal(w)]

\* An acknowledge on w takes effect.
AcknowledgeEffect(w) ==
  /\ sigCount' = [sigCount EXCEPT ![w] = 0]
  /\ UNCHANGED concurrent

CallBegin(ps) ==
  /\ sigAt' = [w \in Wakeups |-> IF w \in WakeupsIn(ps) /\ sigCount[w] > 0
                                  THEN "entry" ELSE "none"]
  /\ nPass' = 0
  /\ nSleep' = 0

(* --------------------------------------------------------------- the caller *)
\* The caller has read the return value and the revents of g_poll: the
\* call's frame is gone.
PollReturn ==
  /\ pc = "ret"
  /\ pc' = "idle"
  /\ ret' = 0
  /\ i' = 1
  /\ timeout' = 0
  /\ ready' = 0
  /\ tok' = NULL
  /\ deadline' = 0
  /\ slept' = FALSE
  /\ timeout_us' = 0
  /\ sigAt' = [w \in Wakeups |-> "none"]
  /\ nPass' = 0
  /\ nSleep' = 0
  /\ nthreads' = 0
  /\ wpc' = [t \in Threads |-> "unborn"]
  /\ wret' = [t \in Threads |-> 0]
  /\ stopSet' = FALSE
  /\ cready' = "none"
  /\ hStable' = TRUE
  /\ UNCHANGED <<build, now, fds, noneWakeup, hookVars, kqWakeup, kqQueue,
                 unixWakeup, ioReady, aw, winEnv, sigVars, ackHistory>>

(* ----------------------------------------------------- g_poll, G_OS_NONE *)
\* deadline = (timeout == -1) ? G_MAXINT64 : g_get_monotonic_time () + ...
NoneDeadline(t, clock) ==
  IF t = -1 THEN G_MAXINT64 ELSE clock + t * G_TIME_SPAN_MILLISECOND

NonePollStart(ps, t, a) ==
  /\ backend = "none"
  /\ pc = "idle"
  /\ fds' = Reuse(fds, ps)
  /\ timeout' = t
  /\ tok' = a
  /\ deadline' = NoneDeadline(t, now)
  /\ i' = 1
  /\ pc' = "n_reg"
  /\ CallBegin(ps)
  /\ UNCHANGED <<noneFrame, now, ready, ret, slept, timeout_us, noneWakeup, hookVars,
                 sigVars, ackHistory>>

\* The token fields, with the store of entry p left out.
NoneRegisteredNever(p, tk, a) == tk

\* if (p->fd == G_WAIT_WAKEUP_HANDLE) g_atomic_pointer_set (&w->token, token)
NoneRegistered(p, tk, a) ==
  IF IsWakeup(p) THEN [tk EXCEPT ![p.user_data] = a] ELSE tk

\* for (i = 0; i < nfds; i++) ... g_atomic_pointer_set (&w->token, token)
NoneRegister ==
  /\ pc = "n_reg"
  /\ IF i <= Len(fds)
       THEN /\ token' = NoneRegistered(fds[i], token, tok)
            /\ i' = i + 1
            /\ UNCHANGED <<pc, slept, ready>>
       ELSE /\ slept' = FALSE
            /\ ready' = 0
            /\ i' = 1
            /\ pc' = "n_pass"
            /\ UNCHANGED token
  /\ UNCHANGED <<noneFrame, now, fds, timeout, ret, tok, deadline, timeout_us, signalled,
                 hookVars, sigVars, ackHistory, callHistory>>

\* p->revents = 0; if (wakeup && g_atomic_int_get (&w->signalled)) p->revents = G_IO_IN
NonePassEntryFirstPassOnly(p) ==
  IF IsWakeup(p) /\ signalled[p.user_data] /\ ~slept
    THEN [p EXCEPT !.revents = {G_IO_IN}]
    ELSE [p EXCEPT !.revents = {}]

\* The pass, were p->revents = 0 to run for the wakeup entries only.
NonePassEntryKeepOthers(p) ==
  IF IsWakeup(p) /\ signalled[p.user_data]
    THEN [p EXCEPT !.revents = {G_IO_IN}]
    ELSE IF IsWakeup(p) THEN [p EXCEPT !.revents = {}] ELSE p

NonePassEntry(p) ==
  IF IsWakeup(p) /\ signalled[p.user_data]
    THEN [p EXCEPT !.revents = {G_IO_IN}]
    ELSE [p EXCEPT !.revents = {}]

NonePass ==
  /\ pc = "n_pass"
  /\ i <= Len(fds)
  /\ fds' = [fds EXCEPT ![i] = NonePassEntry(fds[i])]
  /\ ready' = IF NonePassEntry(fds[i]).revents # {} THEN ready + 1 ELSE ready
  /\ i' = i + 1
  /\ nPass' = IF i = 1 THEN nPass + 1 ELSE nPass
  /\ UNCHANGED <<noneFrame, now, pc, timeout, ret, noneCall, noneWakeup, hookVars,
                 sigVars, ackHistory, sigAt, nSleep>>

\* What follows a readiness pass: "done", or "sleep".
\*   if (ready || timeout == 0 || slept) goto done;
\*   if (timeout != -1) { now = ...; if (now >= deadline) goto done; }
NoneAfterPassNoTimeout(r, t, s, clock, dl) ==
  IF r # 0 \/ s THEN "done" ELSE "sleep"

\* The condition after the pass, were slept left out of it.
NoneAfterPassIgnoreSlept(r, t, s, clock, dl) ==
  IF r # 0 \/ t = 0 THEN "done"
  ELSE IF t = -1 THEN "sleep"
  ELSE IF clock >= dl THEN "done"
  ELSE "sleep"

NoneAfterPass(r, t, s, clock, dl) ==
  IF r # 0 \/ t = 0 \/ s THEN "done"
  ELSE IF t = -1 THEN "sleep"
  ELSE IF clock >= dl THEN "done"
  ELSE "sleep"

NoneDecide ==
  /\ pc = "n_pass"
  /\ i > Len(fds)
  /\ IF NoneAfterPass(ready, timeout, slept, now, deadline) = "done"
       THEN /\ pc' = "n_unreg"
            /\ i' = 1
            /\ UNCHANGED timeout_us
       ELSE /\ pc' = "n_sleep"
            /\ timeout_us' = IF timeout = -1 THEN G_WAIT_INFINITE ELSE deadline - now
            /\ UNCHANGED i
  /\ UNCHANGED <<noneFrame, now, fds, timeout, ready, ret, tok, deadline, slept,
                 noneWakeup, hookVars, sigVars, ackHistory, callHistory>>

\* g_wait_is_set (token): some wakeup of the operation's set is signalled
g_wait_is_set_Never == FALSE

g_wait_is_set == \E k \in 1..Len(fds) : IsWakeup(fds[k]) /\ signalled[fds[k].user_data]

\* g_wait_sleep has returned: slept = TRUE; top of for (;;): ready = 0
NoneAfterSleep ==
  /\ slept' = TRUE
  /\ ready' = 0
  /\ i' = 1
  /\ pc' = "n_pass"
  /\ wakeAt' = 0
  /\ woken' = FALSE

\* g_wait_sleep (token, timeout_us) as the platform supplies it: it asks
\* g_wait_is_set before it parks the thread.
SleepEnter ==
  /\ pc = "n_sleep"
  /\ hooks = "platform"
  /\ nSleep' = nSleep + 1
  /\ IF g_wait_is_set
       THEN NoneAfterSleep
       ELSE /\ pc' = "n_parked"
            /\ wakeAt' = IF timeout_us = G_WAIT_INFINITE THEN G_WAIT_INFINITE
                         ELSE now + timeout_us
            /\ woken' = FALSE
            /\ UNCHANGED <<slept, ready, i>>
  /\ UNCHANGED <<noneFrame, now, fds, timeout, ret, tok, deadline, timeout_us,
                 noneWakeup, sigVars, ackHistory, sigAt, nPass>>

sleepFrame == <<noneFrame, now, fds, timeout, ret, tok, deadline, timeout_us,
                noneWakeup, sigVars, ackHistory, callHistory>>

\* g_wait_wake (token) fired on the same token
SleepReturnWoken ==
  /\ pc = "n_parked" /\ woken
  /\ NoneAfterSleep
  /\ UNCHANGED sleepFrame

\* timeout_us expired
SleepReturnTimeout ==
  /\ pc = "n_parked" /\ wakeAt # G_WAIT_INFINITE /\ now >= wakeAt
  /\ NoneAfterSleep
  /\ UNCHANGED sleepFrame

SleepReturnSpurious ==
  /\ pc = "n_parked" /\ spuriousHook
  /\ NoneAfterSleep
  /\ UNCHANGED sleepFrame

\* The token fields, with the store of entry p left out.
NoneUnregisteredNever(p, tk) == tk

\* if (p->fd == G_WAIT_WAKEUP_HANDLE) g_atomic_pointer_set (&w->token, NULL)
NoneUnregistered(p, tk) ==
  IF IsWakeup(p) THEN [tk EXCEPT ![p.user_data] = NULL] ELSE tk

\* done: for (i = 0; i < nfds; i++) ... g_atomic_pointer_set (&w->token, NULL)
NoneUnregister ==
  /\ pc = "n_unreg"
  /\ IF i <= Len(fds)
       THEN /\ token' = NoneUnregistered(fds[i], token)
            /\ i' = i + 1
            /\ UNCHANGED <<pc, ret>>
       ELSE /\ ret' = ready
            /\ pc' = "ret"
            /\ UNCHANGED <<token, i>>
  /\ UNCHANGED <<noneFrame, now, fds, timeout, ready, noneCall, signalled, hookVars,
                 sigVars, ackHistory, callHistory>>

(* ----------------------------------------------------- GWakeup, G_OS_NONE *)
\* The flag, were acknowledge to invert it.
NoneAcknowledgedToggle(v) == ~v

\* g_atomic_int_set (&wakeup->signalled, FALSE)
NoneAcknowledged(v) == FALSE

\* g_wakeup_acknowledge (G_OS_NONE)
NoneAcknowledge(w) ==
  /\ backend = "none"
  /\ pc = "idle"
  /\ signalled' = [signalled EXCEPT ![w] = NoneAcknowledged(@)]
  /\ AcknowledgeBegin(w)
  /\ AcknowledgeEffect(w)
  /\ UNCHANGED <<noneFrame, now, call, noneCall, token, hookVars, sigVars, callHistory>>

SignalReturn(s) ==
  /\ spc' = [spc EXCEPT ![s] = "idle"]
  /\ sw' = [sw EXCEPT ![s] = NULL]
  /\ st' = [st EXCEPT ![s] = NULL]

\* g_atomic_int_set (&wakeup->signalled, TRUE)
NoneSignalSet(s, w) ==
  /\ backend = "none"
  /\ spc[s] = "idle"
  /\ sigCount[w] < MaxSignals
  /\ sw' = [sw EXCEPT ![s] = w]
  /\ spc' = [spc EXCEPT ![s] = "s_read"]
  /\ signalled' = [signalled EXCEPT ![w] = TRUE]
  /\ SignalBegin(s, w)
  /\ SignalEffect(w)
  /\ UNCHANGED <<noneFrame, now, call, noneCall, token, hookVars, st, absorbed, nPass,
                 nSleep>>

\* t = g_atomic_pointer_get (&wakeup->token); if (t != NULL) ...
NoneSignalRead(s) ==
  /\ spc[s] = "s_read"
  /\ IF token[sw[s]] # NULL
       THEN /\ st' = [st EXCEPT ![s] = token[sw[s]]]
            /\ spc' = [spc EXCEPT ![s] = "s_wake"]
            /\ UNCHANGED sw
       ELSE SignalReturn(s)
  /\ UNCHANGED <<noneFrame, now, call, noneCall, noneWakeup, hookVars, ackHistory,
                 callHistory>>

\* g_wait_wake (t) as the platform supplies it: it unblocks the thread that
\* sleeps on t
NoneSignalWake(s) ==
  /\ spc[s] = "s_wake"
  /\ hooks = "platform"
  /\ woken' = IF pc = "n_parked" /\ tok = st[s] THEN TRUE ELSE woken
  /\ SignalReturn(s)
  /\ UNCHANGED <<noneFrame, now, call, noneCall, noneWakeup, wakeAt, ackHistory,
                 callHistory>>

(* ------------------------------------------- the weak hooks, G_OS_NONE *)
\* G_PANIC_MISSING_IMPLEMENTATION (): a fatal error; the hook does not return.
G_PANIC_MISSING_IMPLEMENTATION == "abort"

\* The body of the weak hooks, were it compiled without G_OS_NONE.
WeakHookBodyEmpty == "return"

\* #ifdef G_OS_NONE G_PANIC_MISSING_IMPLEMENTATION (); #endif
WeakHookBody == G_PANIC_MISSING_IMPLEMENTATION

\* The process is gone: no thread takes another step.
Abort ==
  /\ pc' = "abort"
  /\ spc' = [s \in Signallers |-> "abort"]

\* g_wait_sleep (token, timeout_us), the weak definition
WeakSleep ==
  /\ pc = "n_sleep"
  /\ hooks = "weak"
  /\ nSleep' = nSleep + 1
  /\ IF WeakHookBody = "abort"
       THEN /\ Abort
            /\ UNCHANGED <<slept, ready, i, hookVars, sw, st>>
       ELSE /\ NoneAfterSleep
            /\ UNCHANGED sigVars
  /\ UNCHANGED <<noneFrame, now, fds, timeout, ret, tok, deadline, timeout_us,
                 noneWakeup, ackHistory, sigAt, nPass>>

\* g_wait_wake (t), the weak definition
WeakWake(s) ==
  /\ spc[s] = "s_wake"
  /\ hooks = "weak"
  /\ IF WeakHookBody = "abort"
       THEN /\ Abort
            /\ UNCHANGED <<sw, st>>
       ELSE /\ SignalReturn(s)
            /\ UNCHANGED pc
  /\ UNCHANGED <<noneFrame, now, fds, i, timeout, ready, ret, noneCall, noneWakeup,
                 hookVars, ackHistory, callHistory>>

(* --------------------------------------------------- g_poll, HAVE_KQUEUE *)
KqWakeEntry(w) ==
  [fd |-> G_KQUEUE_WAKEUP_HANDLE, events |-> {G_IO_IN}, revents |-> {}, user_data |-> w]

PlainEntryOf(ev) ==
  [fd |-> PlainFd, events |-> ev, revents |-> {}, user_data |-> NULL]

PollSetsKq ==
  {<<PlainEntryOf({G_IO_IN, G_IO_OUT})>>}
    \cup {<<KqWakeEntry(w)>> : w \in Wakeups}
    \cup {<<PlainEntryOf({G_IO_IN, G_IO_OUT}), KqWakeEntry(w)>> : w \in Wakeups}

\* num_wakeup_fds
NumWakeupFds(f) == Cardinality({k \in 1..Len(f) : f[k].fd = G_KQUEUE_WAKEUP_HANDLE})

\* kevent (wakeup->kq, NOTE_TRIGGER): the user event of w becomes active, if
\* wakeup->kq names the open queue and the queue holds the entry.
Trigger(w) ==
  IF wkq[w] # -1 /\ wkq[w] = kq /\ kqUser[w] # "absent"
    THEN [kqUser EXCEPT ![w] = "triggered"]
    ELSE kqUser

\* kq = kqueue ()
KqPollStartBody(ps, t, q) ==
  /\ backend = "kqueue"
  /\ pc = "idle"
  /\ fds' = Reuse(fds, ps)
  /\ timeout' = t
  /\ kq' = q
  /\ kqUser' = [w \in Wakeups |-> "absent"]
  /\ i' = 1
  /\ pc' = "k_register"
  /\ CallBegin(ps)
  /\ UNCHANGED <<kqFrame, ready, ret, kqWakeup, ioReady, aw, sigVars, ackHistory>>

\* g_poll on a set whose wakeups were realized while pending fewer than
\* MaxPending times.
KqPollStart(ps, t, q) ==
  /\ \A w \in WakeupsIn(ps) : pending[w] < MaxPending
  /\ KqPollStartBody(ps, t, q)

\* kq == -1: return -1
KqPollStartFail(ps, t) ==
  /\ backend = "kqueue"
  /\ pc = "idle"
  /\ fds' = Reuse(fds, ps)
  /\ timeout' = t
  /\ ret' = -1
  /\ pc' = "ret"
  /\ CallBegin(ps)
  /\ UNCHANGED <<kqFrame, i, ready, kqWakeup, kqQueue, ioReady, aw, sigVars,
                 ackHistory>>

\* kevent (kq, events, ev - events, ...): the change list is registered
KqRegister ==
  /\ pc = "k_register"
  /\ kqUser' = [w \in Wakeups |-> IF w \in WakeupsIn(fds) THEN "added" ELSE kqUser[w]]
  /\ pc' = IF NumWakeupFds(fds) = 0 THEN "k_collect" ELSE "k_realize"
  /\ i' = 1
  /\ UNCHANGED <<kqFrame, fds, timeout, ready, ret, kqWakeup, kq, ioReady, aw,
                 sigVars, ackHistory, callHistory>>

\* ret = kevent (kq, events, ev - events, NULL, 0, NULL); if (ret == -1) goto beach
KqRegisterFail ==
  /\ pc = "k_register"
  /\ NumWakeupFds(fds) # 0
  /\ ready' = -1
  /\ pc' = "k_unrealize"
  /\ i' = 1
  /\ UNCHANGED <<kqFrame, fds, timeout, ret, kqWakeup, kqQueue, ioReady, aw,
                 sigVars, ackHistory, callHistory>>

\* for (...) if (fd->fd == G_KQUEUE_WAKEUP_HANDLE) _g_wakeup_kqueue_realize (...)
KqRealizeNext ==
  /\ pc = "k_realize"
  /\ IF i > Len(fds)
       THEN pc' = "k_collect" /\ i' = 1
       ELSE /\ ~IsWakeup(fds[i])
            /\ i' = i + 1
            /\ UNCHANGED pc
  /\ UNCHANGED <<kqFrame, fds, timeout, ready, ret, kqWakeup, kqQueue, ioReady, aw,
                 sigVars, ackHistory, callHistory>>

\* _g_wakeup_kqueue_realize: G_WAKEUP_LOCK (wakeup)
KqRealizeLock ==
  /\ pc = "k_realize"
  /\ i <= Len(fds)
  /\ IsWakeup(fds[i])
  /\ mutex[fds[i].user_data] = "free"
  /\ mutex' = [mutex EXCEPT ![fds[i].user_data] = "poller"]
  /\ pc' = "k_realize_cs"
  /\ UNCHANGED <<kqFrame, fds, i, timeout, ready, ret, wkq, pending, kqQueue,
                 ioReady, aw, sigVars, ackHistory, callHistory>>

\* guint pending: the width of the counter, and the values it takes.
GUINT_BITS == 4

PendingModulus == 2 ^ GUINT_BITS

\* The pending counter, were realize to start from a counter of 0.
KqPendingAfterRealizeReset(n) == 0

\* if (wakeup->pending != 0) g_wakeup_signal_unlocked (wakeup): pending++
KqPendingAfterRealize(n) == IF n # 0 THEN (n + 1) % PendingModulus ELSE n

\* The user events, were realize not to signal.
KqRealizeNoTrigger(w) == kqUser

\* if (wakeup->pending != 0) g_wakeup_signal_unlocked (wakeup): NOTE_TRIGGER
KqRealizeTrigger(w) ==
  IF pending[w] # 0 /\ kqUser[w] # "absent"
    THEN [kqUser EXCEPT ![w] = "triggered"]
    ELSE kqUser

\* wakeup->kq = kq; if (wakeup->pending != 0) g_wakeup_signal_unlocked (wakeup);
\* G_WAKEUP_UNLOCK (wakeup)
KqRealizeBody ==
  /\ pc = "k_realize_cs"
  /\ LET w == fds[i].user_data
         realized == [wkq EXCEPT ![w] = kq]
     IN /\ wkq' = realized
        /\ kqUser' = KqRealizeTrigger(w)
        /\ pending' = [pending EXCEPT ![w] = KqPendingAfterRealize(@)]
        /\ mutex' = [mutex EXCEPT ![w] = "free"]
  /\ i' = i + 1
  /\ pc' = "k_realize"
  /\ UNCHANGED <<kqFrame, fds, timeout, ready, ret, kq, ioReady, aw, sigVars,
                 ackHistory, callHistory>>

\* The events the queue holds: <<filter, entry index or wakeup>>.
KqActive(f) ==
  {<<"EVFILT_USER", w>> : w \in {x \in Wakeups : kqUser[x] = "triggered"}}
    \cup {<<"EVFILT_READ", k>> :
            k \in {j \in 1..Len(f) : f[j].fd >= 0 /\ G_IO_IN \in f[j].events
                                      /\ G_IO_IN \in ioReady}}
    \cup {<<"EVFILT_WRITE", k>> :
            k \in {j \in 1..Len(f) : f[j].fd >= 0 /\ G_IO_OUT \in f[j].events
                                      /\ G_IO_OUT \in ioReady}}
    \cup {<<"EVFILT_EXCEPT", k>> :
            k \in {j \in 1..Len(f) : f[j].fd >= 0 /\ G_IO_PRI \in f[j].events
                                      /\ G_IO_PRI \in ioReady}}

\* What kevent may set in ev->flags and ev->fflags of a returned event:
\* EV_EOF, EV_ERROR, and "fflags" for ev->fflags != 0.
KqEventFlags ==
  {{}, {"EV_EOF"}, {"EV_EOF", "fflags"}, {"EV_ERROR"}, {"EV_EOF", "EV_ERROR"}}

\* case EVFILT_READ, were ev->flags copied into revents.
KqReadFlagsRaw(p, fl) ==
  (IF G_IO_IN \in p.events THEN {G_IO_IN} ELSE {}) \cup (fl \ {"fflags"})

\* case EVFILT_READ: G_IO_IN if asked for; EV_EOF gives G_IO_HUP, and G_IO_ERR
\* when ev->fflags != 0; EV_ERROR gives G_IO_ERR.
KqReadFlags(p, fl) ==
  (IF G_IO_IN \in p.events THEN {G_IO_IN} ELSE {})
    \cup (IF G_IO_PRI \in p.events /\ "EV_OOBAND" \in fl THEN {G_IO_PRI} ELSE {})
    \cup (IF "EV_EOF" \in fl THEN {G_IO_HUP} ELSE {})
    \cup (IF "EV_EOF" \in fl /\ "fflags" \in fl THEN {G_IO_ERR} ELSE {})
    \cup (IF "EV_ERROR" \in fl THEN {G_IO_ERR} ELSE {})

\* case EVFILT_WRITE, were ev->flags not looked at.
KqWriteFlagsNoError(p, fl) == IF G_IO_OUT \in p.events THEN {G_IO_OUT} ELSE {}

\* case EVFILT_WRITE: G_IO_OUT if asked for; EV_EOF or EV_ERROR gives G_IO_ERR.
KqWriteFlags(p, fl) ==
  (IF G_IO_OUT \in p.events THEN {G_IO_OUT} ELSE {})
    \cup (IF fl \cap {"EV_EOF", "EV_ERROR"} # {} THEN {G_IO_ERR} ELSE {})

\* case EVFILT_EXCEPT: G_IO_PRI if asked for; EV_EOF gives G_IO_HUP, EV_ERROR
\* gives G_IO_ERR.
KqExceptFlags(p, fl) ==
  (IF G_IO_PRI \in p.events THEN {G_IO_PRI} ELSE {})
    \cup (IF "EV_EOF" \in fl THEN {G_IO_HUP} ELSE {})
    \cup (IF "EV_ERROR" \in fl THEN {G_IO_ERR} ELSE {})

\* The same without the case EVFILT_USER.
KqResultNoUser(f, evs, fl) ==
  [k \in 1..Len(f) |->
     [f[k] EXCEPT !.revents =
        (IF <<"EVFILT_READ", k>> \in evs THEN KqReadFlags(f[k], fl) ELSE {})
        \cup (IF <<"EVFILT_WRITE", k>> \in evs THEN KqWriteFlags(f[k], fl) ELSE {})
        \cup (IF <<"EVFILT_EXCEPT", k>> \in evs THEN KqExceptFlags(f[k], fl) ELSE {})]]

\* fds[i].revents = 0, then the switch (ev->filter) of each returned event,
\* the events of a descriptor carrying the flags fl
KqResult(f, evs, fl) ==
  [k \in 1..Len(f) |->
     [f[k] EXCEPT !.revents =
        (IF <<"EVFILT_READ", k>> \in evs THEN KqReadFlags(f[k], fl) ELSE {})
        \cup (IF <<"EVFILT_WRITE", k>> \in evs THEN KqWriteFlags(f[k], fl) ELSE {})
        \cup (IF <<"EVFILT_EXCEPT", k>> \in evs THEN KqExceptFlags(f[k], fl) ELSE {})
        \cup (IF f[k].fd = G_KQUEUE_WAKEUP_HANDLE
                   /\ <<"EVFILT_USER", f[k].user_data>> \in evs
                   /\ G_IO_IN \in f[k].events
                THEN {G_IO_IN} ELSE {})]]

\* The return value, were it the number of events kevent returned.
KqCountEvents(f, n) == n

\* if (ret > 0) { ret = 0; for (...) if (fds[i].revents != 0) ret++; }
KqCount(f, n) == IF n > 0 THEN NonEmpty(f) ELSE n

\* ret = kevent (kq, ..., events, max_events, ts) returns the active events, or
\* 0 when the timeout has elapsed; then revents are written and counted.
KqCollect(fl) ==
  /\ pc = "k_collect"
  /\ KqActive(fds) # {} \/ timeout >= 0
  /\ fl = {} \/ \E e \in KqActive(fds) : e[1] # "EVFILT_USER"
  /\ fds' = KqResult(fds, KqActive(fds), fl)
  /\ ready' = KqCount(KqResult(fds, KqActive(fds), fl), Cardinality(KqActive(fds)))
  /\ pc' = "k_unrealize"
  /\ i' = 1
  /\ UNCHANGED <<kqFrame, timeout, ret, kqWakeup, kqQueue, ioReady, aw, sigVars,
                 ackHistory, callHistory>>

\* kevent fails (EINTR, ...): ret = -1; revents are zeroed
KqCollectFail ==
  /\ pc = "k_collect"
  /\ fds' = KqResult(fds, {}, {})
  /\ ready' = -1
  /\ pc' = "k_unrealize"
  /\ i' = 1
  /\ UNCHANGED <<kqFrame, timeout, ret, kqWakeup, kqQueue, ioReady, aw, sigVars,
                 ackHistory, callHistory>>

\* beach: for (...) if (fd->fd == G_KQUEUE_WAKEUP_HANDLE) _g_wakeup_kqueue_unrealize
\* close (kq); return ret
KqUnrealizeNext ==
  /\ pc = "k_unrealize"
  /\ IF i > Len(fds) \/ NumWakeupFds(fds) = 0
       THEN /\ pc' = "ret"
            /\ ret' = ready
            /\ kq' = -1
            /\ kqUser' = [w \in Wakeups |-> "absent"]
            /\ UNCHANGED i
       ELSE /\ ~IsWakeup(fds[i])
            /\ i' = i + 1
            /\ UNCHANGED <<pc, ret, kqQueue>>
  /\ UNCHANGED <<kqFrame, fds, timeout, ready, kqWakeup, ioReady, aw, sigVars,
                 ackHistory, callHistory>>

\* _g_wakeup_kqueue_unrealize: G_WAKEUP_LOCK (wakeup)
KqUnrealizeLock ==
  /\ pc = "k_unrealize"
  /\ NumWakeupFds(fds) # 0
  /\ i <= Len(fds)
  /\ IsWakeup(fds[i])
  /\ mutex[fds[i].user_data] = "free"
  /\ mutex' = [mutex EXCEPT ![fds[i].user_data] = "poller"]
  /\ pc' = "k_unrealize_cs"
  /\ UNCHANGED <<kqFrame, fds, i, timeout, ready, ret, wkq, pending, kqQueue,
                 ioReady, aw, sigVars, ackHistory, callHistory>>

\* The kq field, were it left as it is.
KqUnrealizedKeep(q) == q

\* wakeup->kq = -1
KqUnrealized(q) == -1

\* wakeup->kq = -1; G_WAKEUP_UNLOCK (wakeup)
KqUnrealizeBody ==
  /\ pc = "k_unrealize_cs"
  /\ wkq' = [wkq EXCEPT ![fds[i].user_data] = KqUnrealized(@)]
  /\ mutex' = [mutex EXCEPT ![fds[i].user_data] = "free"]
  /\ i' = i + 1
  /\ pc' = "k_unrealize"
  /\ UNCHANGED <<kqFrame, fds, timeout, ready, ret, pending, kqQueue, ioReady, aw,
                 sigVars, ackHistory, callHistory>>

(* --------------------------------------------------- GWakeup, HAVE_KQUEUE *)
\* g_wakeup_acknowledge: G_WAKEUP_LOCK (wakeup)
KqAcknowledgeLock(w) ==
  /\ backend = "kqueue"
  /\ pc = "idle"
  /\ mutex[w] = "free"
  /\ mutex' = [mutex EXCEPT ![w] = "poller"]
  /\ aw' = w
  /\ pc' = "k_ack"
  /\ AcknowledgeBegin(w)
  /\ UNCHANGED <<kqFrame, fds, i, timeout, ready, ret, wkq, pending, kqQueue,
                 ioReady, sigVars, sigCount, concurrent, callHistory>>

\* wakeup->pending = 0
KqPendingAfterAckDecrement(n) == IF n > 0 THEN n - 1 ELSE 0

KqPendingAfterAck(n) == 0

\* kevent (wakeup->kq, {EV_DELETE, EV_ADD}); wakeup->pending = 0;
\* G_WAKEUP_UNLOCK (wakeup)
KqAcknowledgeBody ==
  /\ pc = "k_ack"
  /\ kqUser' = IF wkq[aw] # -1 /\ wkq[aw] = kq
                 THEN [kqUser EXCEPT ![aw] = "added"]
                 ELSE kqUser
  /\ pending' = [pending EXCEPT ![aw] = KqPendingAfterAck(@)]
  /\ mutex' = [mutex EXCEPT ![aw] = "free"]
  /\ aw' = NULL
  /\ pc' = "idle"
  /\ AcknowledgeEffect(aw)
  /\ UNCHANGED <<kqFrame, fds, i, timeout, ready, ret, wkq, kq, ioReady, sigVars,
                 dirty, absorbed, callHistory>>

\* g_wakeup_signal is called
KqSignalCall(s, w) ==
  /\ backend = "kqueue"
  /\ spc[s] = "idle"
  /\ sigCount[w] + Cardinality({x \in Signallers : spc[x] # "idle" /\ sw[x] = w})
       < MaxSignals
  /\ sw' = [sw EXCEPT ![s] = w]
  /\ spc' = [spc EXCEPT ![s] = "k_lock"]
  /\ SignalBegin(s, w)
  /\ UNCHANGED <<kqFrame, call, kqWakeup, kqQueue, ioReady, aw, st, sigCount,
                 absorbed, callHistory>>

\* G_WAKEUP_LOCK (wakeup)
KqSignalLock(s) ==
  /\ spc[s] = "k_lock"
  /\ mutex[sw[s]] = "free"
  /\ mutex' = [mutex EXCEPT ![sw[s]] = "signaller"]
  /\ spc' = [spc EXCEPT ![s] = "k_signal"]
  /\ UNCHANGED <<kqFrame, call, wkq, pending, kqQueue, ioReady, aw, sw, st,
                 ackHistory, callHistory>>

\* g_wakeup_signal_unlocked (wakeup); G_WAKEUP_UNLOCK (wakeup)
KqSignalBody(s) ==
  /\ spc[s] = "k_signal"
  /\ kqUser' = Trigger(sw[s])
  /\ pending' = [pending EXCEPT ![sw[s]] = (@ + 1) % PendingModulus]
  /\ mutex' = [mutex EXCEPT ![sw[s]] = "free"]
  /\ SignalReturn(s)
  /\ SignalEffect(sw[s])
  /\ UNCHANGED <<kqFrame, call, wkq, kq, ioReady, aw, dirty, absorbed, concurrent,
                 nPass, nSleep>>

(* ------------------------------------------------ g_poll, select emulation *)
UnixWakeEntry(w) ==
  [fd |-> wfds[w][1], events |-> {G_IO_IN}, revents |-> {}, user_data |-> NULL]

PollSetsUnix ==
  {<<PlainEntryOf({G_IO_IN, G_IO_OUT})>>}
    \cup {<<UnixWakeEntry(w)>> : w \in Wakeups}
    \cup {<<PlainEntryOf({G_IO_IN, G_IO_OUT}), UnixWakeEntry(w)>> : w \in Wakeups}

\* FD_SET (f->fd, ...) for every entry with f->fd >= 0 that asks for ev
FdSet(f, ev) == {f[k].fd : k \in {j \in 1..Len(f) : f[j].fd >= 0 /\ ev \in f[j].events}}

\* maxfd
MaxFd(f) ==
  LET cand == {f[k].fd : k \in {j \in 1..Len(f) :
                 f[j].fd >= 0 /\ f[j].events \cap {G_IO_IN, G_IO_OUT, G_IO_PRI} # {}}}
              \cup {0}
  IN CHOOSE m \in cand : \A x \in cand : x <= m

\* The kernel's view of a descriptor.
Readable(fd) ==
  \/ fd = PlainFd /\ G_IO_IN \in ioReady
  \/ \E w \in Wakeups : wfds[w][1] = fd /\ wbuf[w] > 0

Writable(fd) ==
  \/ fd = PlainFd /\ G_IO_OUT \in ioReady
  \/ \E w \in Wakeups : wfds[w][1] = fd /\ wfds[w][2] = -1
  \/ \E w \in Wakeups : wfds[w][2] = fd /\ wbuf[w] < PipeCapacity

Exceptional(fd) == fd = PlainFd /\ G_IO_PRI \in ioReady

\* select (n, &rset, &wset, &xset, ...): the sets it leaves
SelectRead(f) == {fd \in FdSet(f, G_IO_IN) : fd < MaxFd(f) + 1 /\ Readable(fd)}

SelectWrite(f) == {fd \in FdSet(f, G_IO_OUT) : fd < MaxFd(f) + 1 /\ Writable(fd)}

SelectExcept(f) == {fd \in FdSet(f, G_IO_PRI) : fd < MaxFd(f) + 1 /\ Exceptional(fd)}

\* select's return value: the number of bits left in the three sets
SelectCount(f) ==
  Cardinality(SelectRead(f)) + Cardinality(SelectWrite(f))
    + Cardinality(SelectExcept(f))

\* f->revents = 0; FD_ISSET (f->fd, ...) for every entry
SelectResult(f) ==
  [k \in 1..Len(f) |->
     [f[k] EXCEPT !.revents =
        IF f[k].fd >= 0
          THEN (IF f[k].fd \in SelectRead(f) THEN {G_IO_IN} ELSE {})
               \cup (IF f[k].fd \in SelectWrite(f) THEN {G_IO_OUT} ELSE {})
               \cup (IF f[k].fd \in SelectExcept(f) THEN {G_IO_PRI} ELSE {})
          ELSE {}]]

\* FD_ZERO, FD_SET, tv: the call blocks in select ()
UnixPollStart(ps, t) ==
  /\ backend = "select"
  /\ pc = "idle"
  /\ fds' = Reuse(fds, ps)
  /\ timeout' = t
  /\ pc' = "u_select"
  /\ CallBegin(ps)
  /\ UNCHANGED <<unixFrame, i, ready, ret, unixWakeup, ioReady, aw, sigVars,
                 ackHistory>>

\* ready = select (...); if (ready > 0) the revents are written; return ready.
\* select returns 0 only once the timeout has elapsed.
UnixSelectReturn ==
  /\ pc = "u_select"
  /\ SelectCount(fds) > 0 \/ timeout # -1
  /\ ready' = SelectCount(fds)
  /\ fds' = IF SelectCount(fds) > 0 THEN SelectResult(fds) ELSE fds
  /\ ret' = SelectCount(fds)
  /\ pc' = "ret"
  /\ UNCHANGED <<unixFrame, i, timeout, unixWakeup, ioReady, aw, sigVars,
                 ackHistory, callHistory>>

\* select fails (EINTR, ...): ready = -1
UnixSelectFail ==
  /\ pc = "u_select"
  /\ ready' = -1
  /\ ret' = -1
  /\ pc' = "ret"
  /\ UNCHANGED <<unixFrame, fds, i, timeout, unixWakeup, ioReady, aw, sigVars,
                 ackHistory, callHistory>>

(* -------------------------------------------------- GWakeup, eventfd / pipe *)
\* read (fds[0], buffer, sizeof buffer): its return value
ReadResult(w) ==
  IF wbuf[w] = 0 THEN -1
  ELSE IF wfds[w][2] = -1 THEN EventfdSize
  ELSE IF wbuf[w] < BufferSize THEN wbuf[w] ELSE BufferSize

\* What a read leaves of an eventfd's counter.
EventfdAfterReadSemaphore(n) == IF n > 0 THEN n - 1 ELSE 0

EventfdAfterRead(n) == 0

\* What the read leaves behind.
ReadLeaves(w) ==
  IF wfds[w][2] = -1 THEN EventfdAfterRead(wbuf[w])
  ELSE IF wbuf[w] < BufferSize THEN 0 ELSE wbuf[w] - BufferSize

\* g_wakeup_acknowledge is called
UnixAcknowledge(w) ==
  /\ backend = "select"
  /\ pc = "idle"
  /\ aw' = w
  /\ pc' = "u_ack"
  /\ AcknowledgeBegin(w)
  /\ UNCHANGED <<unixFrame, fds, i, timeout, ready, ret, unixWakeup, ioReady,
                 sigVars, sigCount, concurrent, callHistory>>

\* The loop condition, were the descriptor read once.
AcknowledgeReadsOnce(r) == FALSE

\* while (read (...) == sizeof buffer)
AcknowledgeReadsAgain(r) == r = BufferSize

\* while (read (wakeup->fds[0], buffer, sizeof buffer) == sizeof buffer);
UnixAcknowledgeRead ==
  /\ pc = "u_ack"
  /\ wbuf' = [wbuf EXCEPT ![aw] = ReadLeaves(aw)]
  /\ IF AcknowledgeReadsAgain(ReadResult(aw))
       THEN UNCHANGED <<pc, aw, sigCount, concurrent>>
       ELSE /\ pc' = "idle"
            /\ aw' = NULL
            /\ AcknowledgeEffect(aw)
  /\ UNCHANGED <<unixFrame, fds, i, timeout, ready, ret, wfds, ioReady, sigVars,
                 dirty, absorbed, callHistory>>

\* g_wakeup_signal is called
UnixSignalCall(s, w) ==
  /\ backend = "select"
  /\ spc[s] = "idle"
  /\ sigCount[w] + Cardinality({x \in Signallers : spc[x] # "idle" /\ sw[x] = w})
       < MaxSignals
  /\ sw' = [sw EXCEPT ![s] = w]
  /\ spc' = [spc EXCEPT ![s] = "u_write"]
  /\ SignalBegin(s, w)
  /\ UNCHANGED <<unixFrame, call, unixWakeup, ioReady, aw, st, sigCount, absorbed,
                 callHistory>>

\* do res = write (...) while (res == -1 && errno == EINTR): the write that is
\* not interrupted adds one to the counter, or one byte to the pipe unless
\* the pipe is full (EAGAIN).
UnixSignalWrite(s) ==
  /\ spc[s] = "u_write"
  /\ wbuf' = [wbuf EXCEPT ![sw[s]] =
                IF wfds[sw[s]][2] = -1 \/ @ < PipeCapacity THEN @ + 1 ELSE @]
  /\ SignalReturn(s)
  /\ SignalEffect(sw[s])
  /\ UNCHANGED <<unixFrame, call, wfds, ioReady, aw, dirty, absorbed, concurrent,
                 nPass, nSleep>>

(* ---------------------------------------------------- g_poll, G_OS_WIN32 *)
\* Handle 2 is polled for G_IO_IN | G_IO_OUT, the others for G_IO_IN.
WinHandleEntry(k) ==
  [fd |-> k, events |-> IF k = 2 THEN {G_IO_IN, G_IO_OUT} ELSE {G_IO_IN},
   revents |-> {}, user_data |-> NULL]

WinMsgEntry ==
  [fd |-> G_WIN32_MSG_HANDLE, events |-> {G_IO_IN}, revents |-> {}, user_data |-> NULL]

\* n entries: handles 1..n, with the message queue at position m (0: nowhere).
WinSet(n, m) == [k \in 1..n |-> IF k = m THEN WinMsgEntry ELSE WinHandleEntry(k)]

\* Sizes of the sets: within one wait, at its ceiling, fanned out, beyond the
\* fan-out.
WinSizes ==
  {MAXIMUM_WAIT_OBJECTS - 1, MAXIMUM_WAIT_OBJECTS, MAXIMUM_WAIT_OBJECTS + 1,
   MAXIMUM_WAIT_OBJECTS_PER_THREAD * MAXIMUM_WAIT_OBJECTS_PER_THREAD + 1}

\* The message queue is polled nowhere, first or last.
PollSetsWin == UNION {{WinSet(n, m) : m \in {0, 1, n}} : n \in WinSizes}

\* The handles that become signalled: the first two, the first of every
\* further thread, and the one beyond the threads.
WinHandles ==
  {1, 2}
    \cup {(t - 1) * MAXIMUM_WAIT_OBJECTS_PER_THREAD + 1 :
            t \in 2..MAXIMUM_WAIT_OBJECTS_PER_THREAD}
    \cup {MAXIMUM_WAIT_OBJECTS_PER_THREAD * MAXIMUM_WAIT_OBJECTS_PER_THREAD + 1}

\* nthreads, without the limit of MAXIMUM_WAIT_OBJECTS_PER_THREAD
NThreadsUncapped(n) ==
  (n \div MAXIMUM_WAIT_OBJECTS_PER_THREAD)
    + (IF n % MAXIMUM_WAIT_OBJECTS_PER_THREAD > 0 THEN 1 ELSE 0)

\* nthreads = nfds / PER; if (threads_remain > 0) nthreads++;
\* if (nthreads > PER) nthreads = PER
NThreads(n) ==
  IF NThreadsUncapped(n) > MAXIMUM_WAIT_OBJECTS_PER_THREAD
    THEN MAXIMUM_WAIT_OBJECTS_PER_THREAD
    ELSE NThreadsUncapped(n)

\* thread_fds of thread t (counted from 1), of nt threads
ThreadFds(n, nt, t) ==
  IF t = nt /\ n % MAXIMUM_WAIT_OBJECTS_PER_THREAD > 0
    THEN n % MAXIMUM_WAIT_OBJECTS_PER_THREAD
    ELSE MAXIMUM_WAIT_OBJECTS_PER_THREAD

\* fds_idx when thread t is filled, as an index from 1
ChunkLo(t) == (t - 1) * MAXIMUM_WAIT_OBJECTS_PER_THREAD + 1

ChunkHi(n, nt, t) == ChunkLo(t) + ThreadFds(n, nt, t) - 1

\* The loop of fill_poll_thread_data over entries k..hi. d.handles holds entry
\* indices, 0 for stop_fd; d.msg the index of msg_fd, 0 for NULL; d.zeroed the
\* entries whose revents the loop has set to 0.
RECURSIVE Fill(_, _, _, _)
Fill(f, k, hi, d) ==
  IF k > hi THEN d
  ELSE IF \/ Len(d.handles) = MAXIMUM_WAIT_OBJECTS
          \/ d.msg # 0 /\ Len(d.handles) = MAXIMUM_WAIT_OBJECTS - 1
    THEN d
  ELSE IF f[k].fd = G_WIN32_MSG_HANDLE /\ G_IO_IN \in f[k].events
    THEN Fill(f, k + 1, hi, [d EXCEPT !.msg = k, !.zeroed = @ \cup {k}])
  ELSE IF f[k].fd > 0
    THEN Fill(f, k + 1, hi,
              [d EXCEPT !.handles = Append(@, k), !.zeroed = @ \cup {k}])
  ELSE Fill(f, k + 1, hi, [d EXCEPT !.zeroed = @ \cup {k}])

fill_poll_thread_data(f, lo, hi, stop) ==
  Fill(f, lo, hi, [handles |-> IF stop THEN <<0>> ELSE <<>>, msg |-> 0, zeroed |-> {}])

\* data of the path without threads
SingleData == fill_poll_thread_data(fds, 1, Len(fds), FALSE)

\* threads_data[t] as fill_poll_thread_data leaves it
ChunkData(f, nt, t) ==
  fill_poll_thread_data(f, ChunkLo(t), ChunkHi(Len(f), nt, t), TRUE)

\* threads_data[t] once its msg_fd is taken away
WorkerData(t) == [ChunkData(fds, nthreads, t) EXCEPT !.msg = 0]

\* g_poll: msg_fd, the msg_fd of the last thread that had one
MsgFdOf(f, nt) ==
  LET S == {t \in 1..nt : ChunkData(f, nt, t).msg # 0}
  IN IF S = {} THEN 0
     ELSE ChunkData(f, nt, CHOOSE t \in S : \A u \in S : u <= t).msg

MsgFd == MsgFdOf(fds, nthreads)

ZeroRevents(f, ks) ==
  [k \in 1..Len(f) |-> IF k \in ks THEN [f[k] EXCEPT !.revents = {}] ELSE f[k]]

\* f->revents = f->events for the entries of flag; msg_fd->revents |= G_IO_IN
ApplyFlags(f, flag, msgk) ==
  [k \in 1..Len(f) |->
     IF k \in flag THEN [f[k] EXCEPT !.revents = f[k].events]
     ELSE IF k = msgk THEN [f[k] EXCEPT !.revents = @ \cup {G_IO_IN}]
     ELSE f[k]]

\* Handle x of a handle array is signalled.
\* The handle array without a stop event that is ever signalled.
SignalledNoStop(f, x) == IF x = 0 THEN FALSE ELSE f[x].fd \in hReady

Signalled(f, x) == IF x = 0 THEN stopSet ELSE f[x].fd \in hReady

\* Positions of the handle array that are signalled.
Sig(f, d) == {q \in 1..Len(d.handles) : Signalled(f, d.handles[q])}

SomethingReady(f, d) == Sig(f, d) # {} \/ (d.msg # 0 /\ msgReady)

\* poll_rest (..., timeout_ms = 0) with its recursion. When a handle is
\* signalled and input is waiting, the wait may return either (mfirst: the
\* message queue). A handle returned first: every signalled handle from it on
\* gets revents = events and all but stop_fd are counted, msg_fd is not
\* looked at again. The message queue returned first: msg_fd gets G_IO_IN, 1
\* is counted, and the handles are polled as well.
PollRestNow(f, d, mfirst) ==
  IF d.msg # 0 /\ msgReady /\ (mfirst \/ Sig(f, d) = {})
    THEN [blk |-> FALSE,
          ret |-> 1 + Cardinality({q \in Sig(f, d) : d.handles[q] # 0}),
          flag |-> {d.handles[q] : q \in Sig(f, d)} \ {0},
          msg |-> d.msg]
  ELSE IF Sig(f, d) # {}
    THEN [blk |-> FALSE,
          ret |-> Cardinality({q \in Sig(f, d) : d.handles[q] # 0}),
          flag |-> {d.handles[q] : q \in Sig(f, d)} \ {0},
          msg |-> 0]
  ELSE [blk |-> FALSE, ret |-> 0, flag |-> {}, msg |-> 0]

\* poll_rest without recursion and without the test f != stop_fd.
PollRestOneCountStop(f, d, mfirst) ==
  IF d.msg # 0 /\ msgReady /\ (mfirst \/ Sig(f, d) = {})
    THEN [blk |-> FALSE, ret |-> 1, flag |-> {}, msg |-> d.msg]
  ELSE IF Sig(f, d) # {}
    THEN LET h == d.handles[CHOOSE q \in Sig(f, d) : \A r \in Sig(f, d) : q <= r]
         IN [blk |-> FALSE, ret |-> 1, flag |-> {h} \ {0}, msg |-> 0]
  ELSE [blk |-> FALSE, ret |-> 0, flag |-> {}, msg |-> 0]

\* poll_rest without recursion: the message queue, or the signalled handle of
\* lowest index, or nothing.
PollRestOne(f, d, mfirst) ==
  IF d.msg # 0 /\ msgReady /\ (mfirst \/ Sig(f, d) = {})
    THEN [blk |-> FALSE, ret |-> 1, flag |-> {}, msg |-> d.msg]
  ELSE IF Sig(f, d) # {}
    THEN LET h == d.handles[CHOOSE q \in Sig(f, d) : \A r \in Sig(f, d) : q <= r]
         IN [blk |-> FALSE, ret |-> IF h # 0 THEN 1 ELSE 0, flag |-> {h} \ {0},
             msg |-> 0]
  ELSE [blk |-> FALSE, ret |-> 0, flag |-> {}, msg |-> 0]

Blocks == [blk |-> TRUE, ret |-> 0, flag |-> {}, msg |-> 0]

\* Polling for several things?
Multi(d) == Len(d.handles) > 1 \/ (Len(d.handles) > 0 /\ d.msg # 0)

\* poll_single_thread up to the wait that blocks.
PollSingleFirst(f, d, t, mfirst) ==
  IF Multi(d)
    THEN IF PollRestNow(f, d, mfirst).ret = 0 /\ t # 0
           THEN Blocks
           ELSE PollRestNow(f, d, mfirst)
  ELSE IF t = 0 THEN PollRestOne(f, d, mfirst)
  ELSE IF Len(d.handles) = 0 /\ d.msg = 0 /\ t = INFINITE
    THEN [blk |-> FALSE, ret |-> -1, flag |-> {}, msg |-> 0]
  ELSE Blocks

\* A wait of the first pass fails after the handles at positions 1..p were
\* dealt with.
PollSingleFirstFailed(f, d, p) ==
  [blk |-> FALSE, ret |-> -1,
   flag |-> {d.handles[q] : q \in {r \in Sig(f, d) : r <= p}} \ {0}, msg |-> 0]

\* The end of g_poll without the loop that clears revents.
WinFinishKeep(f, r) == f

\* if (retval == -1) for (f = fds; f < &fds[nfds]; ++f) f->revents = 0
WinFinish(f, r) == IF r = -1 THEN ZeroRevents(f, 1..Len(f)) ELSE f

WinPollStart(ps, t) ==
  /\ backend = "win32"
  /\ pc = "idle"
  /\ timeout' = t
  /\ IF Len(ps) <= MAXIMUM_WAIT_OBJECTS
       THEN /\ fds' = ZeroRevents(Reuse(fds, ps),
                        fill_poll_thread_data(ps, 1, Len(ps), FALSE).zeroed)
            /\ nthreads' = 0
            /\ wpc' = [u \in Threads |-> "unborn"]
            /\ pc' = "w_first"
       ELSE /\ fds' = ZeroRevents(Reuse(fds, ps),
                        UNION {ChunkData(ps, NThreads(Len(ps)), u).zeroed :
                                 u \in 1..NThreads(Len(ps))})
            /\ nthreads' = NThreads(Len(ps))
            /\ wpc' = [u \in Threads |->
                         IF u <= NThreads(Len(ps)) THEN "start" ELSE "unborn"]
            /\ pc' = "w_wait"
  /\ wret' = [u \in Threads |-> 0]
  /\ stopSet' = FALSE
  /\ cready' = "none"
  /\ hStable' = TRUE
  /\ CallBegin(ps)
  /\ UNCHANGED <<winFrame, i, ready, ret, winEnv>>

\* The caller's thread ends poll_single_thread with result r.
WinSingleDone(r) ==
  /\ fds' = WinFinish(ApplyFlags(fds, r.flag, r.msg), r.ret)
  /\ ret' = r.ret
  /\ pc' = "ret"

WinSingleFirst(mfirst) ==
  /\ pc = "w_first"
  /\ IF PollSingleFirst(fds, SingleData, timeout, mfirst).blk
       THEN pc' = "w_blocked" /\ UNCHANGED <<fds, ret>>
       ELSE WinSingleDone(PollSingleFirst(fds, SingleData, timeout, mfirst))
  /\ UNCHANGED <<winFrame, i, timeout, ready, winVars, callHistory>>

WinSingleFirstFail(p) ==
  /\ pc = "w_first"
  /\ Len(SingleData.handles) > 0 \/ SingleData.msg # 0
  /\ p = 0 \/ (Multi(SingleData) /\ p < Len(SingleData.handles))
  /\ WinSingleDone(PollSingleFirstFailed(fds, SingleData, p))
  /\ UNCHANGED <<winFrame, i, timeout, ready, winVars, callHistory>>

\* The wait returns WAIT_OBJECT_0 + n
WinSingleWake(mfirst) ==
  /\ pc = "w_blocked"
  /\ SomethingReady(fds, SingleData)
  /\ WinSingleDone(PollRestOne(fds, SingleData, mfirst))
  /\ UNCHANGED <<winFrame, i, timeout, ready, winVars, callHistory>>

\* The wait returns WAIT_TIMEOUT or WAIT_IO_COMPLETION
WinSingleReturn0 ==
  /\ pc = "w_blocked"
  /\ ~SomethingReady(fds, SingleData)
  /\ WinSingleDone([blk |-> FALSE, ret |-> 0, flag |-> {}, msg |-> 0])
  /\ UNCHANGED <<winFrame, i, timeout, ready, winVars, callHistory>>

\* The wait returns WAIT_FAILED
WinSingleFail ==
  /\ pc = "w_blocked"
  /\ Len(SingleData.handles) > 0 \/ SingleData.msg # 0
  /\ WinSingleDone([blk |-> FALSE, ret |-> -1, flag |-> {}, msg |-> 0])
  /\ UNCHANGED <<winFrame, i, timeout, ready, winVars, callHistory>>

\* _endthreadex (poll_single_thread (data))
WinWorkerExit(t, r) ==
  /\ fds' = ApplyFlags(fds, r.flag, r.msg)
  /\ wret' = [wret EXCEPT ![t] = r.ret]
  /\ wpc' = [wpc EXCEPT ![t] = "exited"]

WinWorkerFirst(t) ==
  /\ wpc[t] = "start"
  /\ IF PollSingleFirst(fds, WorkerData(t), timeout, FALSE).blk
       THEN wpc' = [wpc EXCEPT ![t] = "blocked"] /\ UNCHANGED <<fds, wret>>
       ELSE WinWorkerExit(t, PollSingleFirst(fds, WorkerData(t), timeout, FALSE))
  /\ UNCHANGED <<winFrame, pc, i, timeout, ready, ret, winEnv, nthreads, stopSet,
                 cready, hStable, callHistory>>

WinWorkerFirstFail(t, p) ==
  /\ wpc[t] = "start"
  /\ p = 0 \/ (Multi(WorkerData(t)) /\ p < Len(WorkerData(t).handles))
  /\ WinWorkerExit(t, PollSingleFirstFailed(fds, WorkerData(t), p))
  /\ UNCHANGED <<winFrame, pc, i, timeout, ready, ret, winEnv, nthreads, stopSet,
                 cready, hStable, callHistory>>

WinWorkerWake(t) ==
  /\ wpc[t] = "blocked"
  /\ SomethingReady(fds, WorkerData(t))
  /\ WinWorkerExit(t, PollRestOne(fds, WorkerData(t), FALSE))
  /\ UNCHANGED <<winFrame, pc, i, timeout, ready, ret, winEnv, nthreads, stopSet,
                 cready, hStable, callHistory>>

WinWorkerReturn0(t) ==
  /\ wpc[t] = "blocked"
  /\ ~SomethingReady(fds, WorkerData(t))
  /\ WinWorkerExit(t, [blk |-> FALSE, ret |-> 0, flag |-> {}, msg |-> 0])
  /\ UNCHANGED <<winFrame, pc, i, timeout, ready, ret, winEnv, nthreads, stopSet,
                 cready, hStable, callHistory>>

WinWorkerFail(t) ==
  /\ wpc[t] = "blocked"
  /\ WinWorkerExit(t, [blk |-> FALSE, ret |-> -1, flag |-> {}, msg |-> 0])
  /\ UNCHANGED <<winFrame, pc, i, timeout, ready, ret, winEnv, nthreads, stopSet,
                 cready, hStable, callHistory>>

\* Wait for at least one thread to return, then SetEvent (stop_event). The
\* wait returns WAIT_OBJECT_0 + nthreads ("msg") when input is waiting and
\* msg_fd is not NULL; when a thread has exited as well it may return either.
WinCoordWait(mfirst) ==
  /\ pc = "w_wait"
  /\ \/ \E t \in 1..nthreads : wpc[t] = "exited"
     \/ MsgFd # 0
     \/ timeout # INFINITE
  /\ cready' = IF /\ MsgFd # 0
                  /\ msgReady
                  /\ mfirst \/ \A t \in 1..nthreads : wpc[t] # "exited"
                 THEN "msg" ELSE "other"
  /\ stopSet' = TRUE
  /\ pc' = "w_join"
  /\ UNCHANGED <<winFrame, fds, i, timeout, ready, ret, winEnv, nthreads, wpc, wret,
                 hStable, callHistory>>

\* WaitForMultipleObjects (nthreads, thread_handles, TRUE, INFINITE) returns
\* only if one thread has exited.
JoinReadyAny == \E t \in 1..nthreads : wpc[t] = "exited"

\* WaitForMultipleObjects (nthreads, thread_handles, TRUE, INFINITE) returns
JoinReady == \A t \in 1..nthreads : wpc[t] = "exited"

RECURSIVE SumRet(_)
SumRet(k) == IF k = 0 THEN 0 ELSE wret[k] + SumRet(k - 1)

\* retval after the loop over GetExitCodeThread
WinRetval ==
  IF \E t \in 1..nthreads : wret[t] = -1 THEN -1
  ELSE (IF cready = "msg" THEN 1 ELSE 0) + SumRet(nthreads)

\* Wait for the rest of the threads, collect the exit codes, return
WinCoordJoin ==
  /\ pc = "w_join"
  /\ JoinReady
  /\ fds' = WinFinish(ApplyFlags(fds, {}, IF cready = "msg" THEN MsgFd ELSE 0),
                      WinRetval)
  /\ ret' = WinRetval
  /\ pc' = "ret"
  /\ UNCHANGED <<winFrame, i, timeout, ready, winVars, callHistory>>

\* A handle becomes signalled.
HandleSignal(h) ==
  /\ backend = "win32"
  /\ h \notin hReady
  /\ Cardinality(hReady) < MaxReady
  /\ hReady' = hReady \cup {h}
  /\ hStable' = (hStable /\ pc = "idle")
  /\ UNCHANGED <<winFrame, call, msgReady, nthreads, wpc, wret, stopSet, cready,
                 callHistory>>

\* Input arrives in the message queue.
MsgArrive ==
  /\ backend = "win32"
  /\ ~msgReady
  /\ msgReady' = TRUE
  /\ hStable' = (hStable /\ pc = "idle")
  /\ UNCHANGED <<winFrame, call, hReady, nthreads, wpc, wret, stopSet, cready,
                 callHistory>>

\* Between calls the handles are reset and the messages are taken.
WinEnvReset ==
  /\ backend = "win32"
  /\ pc = "idle"
  /\ hReady # {} \/ msgReady
  /\ hReady' = {}
  /\ msgReady' = FALSE
  /\ UNCHANGED <<winFrame, call, winCall, callHistory>>

(* ---------------------------------------------------------- the environment *)
\* The readiness of PlainFd changes.
IoChange(r) ==
  /\ backend \in {"kqueue", "select"}
  /\ ioReady # r
  /\ ioReady' = r
  /\ UNCHANGED <<build, now, call, noneCall, noneWakeup, hookVars, kqWakeup, kqQueue,
                 unixWakeup, aw, winVars, sigVars, ackHistory, callHistory>>

(* ------------------------------------------------------------------ clock *)
Tick ==
  /\ now + TickUs <= MaxTime
  /\ now' = now + TickUs
  /\ UNCHANGED <<noneFrame, call, noneCall, noneWakeup, hookVars, sigVars, ackHistory,
                 callHistory>>

(* ---------------------------------------------------------- specification *)
InitIdle ==
  /\ now = 0
  /\ fds = <<>>
  /\ pc = "idle"
  /\ i = 1
  /\ timeout = 0
  /\ ready = 0
  /\ ret = 0
  /\ tok = NULL
  /\ deadline = 0
  /\ slept = FALSE
  /\ timeout_us = 0
  /\ signalled = [w \in Wakeups |-> FALSE]
  /\ token = [w \in Wakeups |-> NULL]
  /\ wakeAt = 0
  /\ woken = FALSE
  /\ spc = [s \in Signallers |-> "idle"]
  /\ sw = [s \in Signallers |-> NULL]
  /\ st = [s \in Signallers |-> NULL]
  /\ sigCount = [w \in Wakeups |-> 0]
  /\ absorbed = [w \in Wakeups |-> 0]
  /\ concurrent = [w \in Wakeups |-> FALSE]
  /\ sigAt = [w \in Wakeups |-> "none"]
  /\ nPass = 0
  /\ nSleep = 0
  /\ wkq = [w \in Wakeups |-> -1]
  /\ pending = [w \in Wakeups |-> 0]
  /\ mutex = [w \in Wakeups |-> "free"]
  /\ kq = -1
  /\ kqUser = [w \in Wakeups |-> "absent"]
  /\ ioReady = {}
  /\ aw = NULL
  /\ hReady = {}
  /\ msgReady = FALSE
  /\ nthreads = 0
  /\ wpc = [t \in Threads |-> "unborn"]
  /\ wret = [t \in Threads |-> 0]
  /\ stopSet = FALSE
  /\ cready = "none"
  /\ hStable = TRUE

\* Nothing was signalled yet.
InitCommon ==
  /\ InitIdle
  /\ wbuf = [w \in Wakeups |-> 0]
  /\ dirty = [w \in Wakeups |-> FALSE]

InitNone ==
  /\ hooks = "platform"
  /\ backend = "none"
  /\ wfds = [w \in Wakeups |-> <<-1, -1>>]
  /\ spuriousHook \in BOOLEAN
  /\ InitCommon

NonePoller ==
  \/ NoneRegister
  \/ NonePass
  \/ NoneDecide
  \/ SleepEnter
  \/ NoneUnregister

NextNone ==
  \/ \E ps \in PollSetsNone, t \in Timeouts, a \in Tokens : NonePollStart(ps, t, a)
  \/ NoneRegister
  \/ NonePass
  \/ NoneDecide
  \/ SleepEnter
  \/ SleepReturnWoken
  \/ SleepReturnTimeout
  \/ SleepReturnSpurious
  \/ NoneUnregister
  \/ PollReturn
  \/ \E w \in Wakeups : NoneAcknowledge(w)
  \/ \E s \in Signallers, w \in Wakeups : NoneSignalSet(s, w)
  \/ \E s \in Signallers : NoneSignalRead(s)
  \/ \E s \in Signallers : NoneSignalWake(s)
  \/ Tick

SpecNone == InitNone /\ [][NextNone]_vars

InitKq ==
  /\ hooks = "platform"
  /\ backend = "kqueue"
  /\ wfds = [w \in Wakeups |-> <<-1, -1>>]
  /\ spuriousHook = FALSE
  /\ InitCommon

NextKq ==
  \/ \E ps \in PollSetsKq, t \in Timeouts, q \in KqFds : KqPollStart(ps, t, q)
  \/ \E ps \in PollSetsKq, t \in Timeouts : KqPollStartFail(ps, t)
  \/ KqRegister
  \/ KqRegisterFail
  \/ KqRealizeNext
  \/ KqRealizeLock
  \/ KqRealizeBody
  \/ \E fl \in {{}} : KqCollect(fl)
  \/ KqCollectFail
  \/ KqUnrealizeNext
  \/ KqUnrealizeLock
  \/ KqUnrealizeBody
  \/ PollReturn
  \/ \E w \in Wakeups : KqAcknowledgeLock(w)
  \/ KqAcknowledgeBody
  \/ \E s \in Signallers, w \in Wakeups : KqSignalCall(s, w)
  \/ \E s \in Signallers : KqSignalLock(s)
  \/ \E s \in Signallers : KqSignalBody(s)
  \/ \E r \in SUBSET {G_IO_IN, G_IO_OUT} : IoChange(r)

SpecKq == InitKq /\ [][NextKq]_vars

InitWin ==
  /\ hooks = "platform"
  /\ backend = "win32"
  /\ spuriousHook = FALSE
  /\ wfds = [w \in Wakeups |-> <<-1, -1>>]
  /\ InitCommon

NextWin ==
  \/ \E ps \in PollSetsWin, t \in Timeouts : WinPollStart(ps, t)
  \/ \E mfirst \in BOOLEAN : WinSingleFirst(mfirst)
  \/ \E p \in 0..MAXIMUM_WAIT_OBJECTS : WinSingleFirstFail(p)
  \/ \E mfirst \in BOOLEAN : WinSingleWake(mfirst)
  \/ WinSingleReturn0
  \/ WinSingleFail
  \/ \E t \in Threads : WinWorkerFirst(t)
  \/ \E t \in Threads, p \in 0..MAXIMUM_WAIT_OBJECTS : WinWorkerFirstFail(t, p)
  \/ \E t \in Threads : WinWorkerWake(t)
  \/ \E t \in Threads : WinWorkerReturn0(t)
  \/ \E t \in Threads : WinWorkerFail(t)
  \/ \E mfirst \in BOOLEAN : WinCoordWait(mfirst)
  \/ WinCoordJoin
  \/ PollReturn
  \/ \E h \in WinHandles : HandleSignal(h)
  \/ MsgArrive
  \/ WinEnvReset

SpecWin == InitWin /\ [][NextWin]_vars

\* g_wakeup_new: an eventfd, or a pipe where eventfd is not to be had
InitUnix ==
  /\ hooks = "platform"
  /\ backend = "select"
  /\ spuriousHook = FALSE
  /\ wfds \in [Wakeups -> {<<WakeFd, -1>>, <<WakeFd, WakeFd + 1>>}]
  /\ InitCommon

NextUnix ==
  \/ \E ps \in PollSetsUnix, t \in Timeouts : UnixPollStart(ps, t)
  \/ UnixSelectReturn
  \/ UnixSelectFail
  \/ PollReturn
  \/ \E w \in Wakeups : UnixAcknowledge(w)
  \/ UnixAcknowledgeRead
  \/ \E s \in Signallers, w \in Wakeups : UnixSignalCall(s, w)
  \/ \E s \in Signallers : UnixSignalWrite(s)
  \/ \E r \in SUBSET {G_IO_IN, G_IO_OUT} : IoChange(r)

SpecUnix == InitUnix /\ [][NextUnix]_vars


\* The calls that do not read the clock: timeout -1 and timeout 0.
NextNoneUntimed ==
  \/ \E ps \in PollSetsNone, t \in {-1, 0}, a \in Tokens : NonePollStart(ps, t, a)
  \/ NoneRegister
  \/ NonePass
  \/ NoneDecide
  \/ SleepEnter
  \/ SleepReturnWoken
  \/ SleepReturnSpurious
  \/ NoneUnregister
  \/ PollReturn
  \/ \E w \in Wakeups : NoneAcknowledge(w)
  \/ \E s \in Signallers, w \in Wakeups : NoneSignalSet(s, w)
  \/ \E s \in Signallers : NoneSignalRead(s)
  \/ \E s \in Signallers : NoneSignalWake(s)

\* The threads are scheduled: a thread inside g_poll or g_wakeup_signal takes
\* its next step, and a parked thread that was woken resumes.  Nothing obliges
\* the caller to issue a call.
SpecNoneFair ==
  /\ InitNone
  /\ [][NextNoneUntimed]_vars
  /\ WF_vars(NonePoller)
  /\ WF_vars(SleepReturnWoken)
  /\ \A s \in Signallers : WF_vars(NoneSignalRead(s) \/ NoneSignalWake(s))

\* The three builds side by side, without the clock.
InitWakeup == InitNone \/ InitKq \/ InitUnix

NextWakeup == NextNoneUntimed \/ NextKq \/ NextUnix

SpecWakeup == InitWakeup /\ [][NextWakeup]_vars

(* ----------------------------------------------------------------- claims *)
\* C1: sticky readiness (G_OS_NONE).  A g_poll call whose set holds a wakeup
\* that was signalled and not acknowledged when the call was issued, or that
\* got signalled while the call was parked in g_wait_sleep, returns with
\* G_IO_IN in the revents of that wakeup's entry.
C1_StickyReadiness ==
  pc = "ret" =>
    \A w \in WakeupsIn(fds) :
      sigAt[w] \in {"entry", "parked"} => Reported(fds, w) = {{G_IO_IN}}

C1_Witness ==
  /\ pc = "ret"
  /\ nSleep = 1
  /\ \E w \in WakeupsIn(fds) : sigAt[w] = "parked" /\ Reported(fds, w) = {{G_IO_IN}}

\* C5: no lost wakeup (G_OS_NONE, timeout -1).  If the wakeup is signalled
\* when the call is issued, or gets signalled while the call registers its
\* token, makes its first readiness pass, is about to call g_wait_sleep or is
\* parked in it, then the call returns, and it returns with G_IO_IN in the
\* revents of that wakeup's entry.
C5_Window == {"entry", "reg", "check", "presleep", "parked"}

C5_NoLostWakeup ==
  /\ [](pc = "ret" /\ timeout = -1 =>
          \A w \in WakeupsIn(fds) :
            sigAt[w] \in C5_Window => Reported(fds, w) = {{G_IO_IN}})
  /\ \A w \in Wakeups :
       (InCall /\ timeout = -1 /\ w \in WakeupsIn(fds) /\ sigAt[w] \in C5_Window)
         ~> (pc = "ret")

C5_Witness ==
  /\ pc = "ret"
  /\ timeout = -1
  /\ \E w \in WakeupsIn(fds) : sigAt[w] = "presleep" /\ Reported(fds, w) = {{G_IO_IN}}

\* C6: deadline lower bound (G_OS_NONE).  A g_poll call with timeout T > 0
\* that returns 0 (nothing became ready) does not return before its deadline,
\* the clock at entry plus T milliseconds.
C6_DeadlineLowerBound ==
  (pc = "ret" /\ timeout > 0 /\ ret = 0) => now >= deadline

\* C7: with timeout -1 the G_OS_NONE g_poll never returns 0.  Stated for a
\* platform whose g_wait_sleep returns only on g_wait_wake or on its timeout.
C7_InfiniteNeverZero ==
  ~spuriousHook => ((pc = "ret" /\ timeout = -1) => ret # 0)

\* C8: with timeout 0 the G_OS_NONE g_poll never invokes g_wait_sleep and has
\* made exactly one readiness pass when it returns.
C8_NonBlocking ==
  (pc # "idle" /\ timeout = 0) =>
    /\ nSleep = 0
    /\ pc \notin {"n_sleep", "n_parked"}
    /\ pc = "ret" => nPass = 1

C8_Witness ==
  /\ pc = "ret"
  /\ timeout = 0
  /\ nPass = 1
  /\ \E w \in WakeupsIn(fds) : ~signalled[w] /\ now < MaxTime

\* What "w is not pending" is in each build.
NonPending(w) ==
  CASE backend = "none" -> ~signalled[w]
    [] backend = "kqueue" -> pending[w] = 0
    [] OTHER -> wbuf[w] = 0

\* C2: on the G_OS_NONE and kqueue builds, a g_poll with timeout 0 that does
\* not fail and that was entered with a signal on the wakeup not yet
\* acknowledged returns a positive count with exactly G_IO_IN on the wakeup's
\* entry; entered after an acknowledge that took in at least one signal, with
\* no signal call since that acknowledge began, it leaves the wakeup's
\* revents empty.
C2_SignalThenPoll ==
  (backend \in {"none", "kqueue"} /\ pc = "ret" /\ timeout = 0 /\ ret >= 0) =>
    \A w \in WakeupsIn(fds) :
      /\ sigAt[w] = "entry" => (ret > 0 /\ Reported(fds, w) = {{G_IO_IN}})
      /\ (absorbed[w] >= 1 /\ ~dirty[w]) => Reported(fds, w) = {{}}

C2_Witness ==
  /\ backend = "kqueue"
  /\ pc = "ret"
  /\ timeout = 0
  /\ ret = 0
  /\ \E w \in WakeupsIn(fds) :
       absorbed[w] = 1 /\ ~dirty[w] /\ Reported(fds, w) = {{}} /\ pending[w] = 0

\* C3: on the G_OS_NONE and kqueue builds, for every k in 1..MaxSignals, a
\* g_poll that does not fail and was entered with k unacknowledged signals on
\* the wakeup reports exactly G_IO_IN on its entry and returns the number of
\* entries with non-empty revents, whatever k is; and after one acknowledge
\* that took in k signals, with no signal call since it began, a g_poll with
\* timeout 0 finds the wakeup not pending and reports nothing for it.
C3_Coalescing ==
  \A w \in Wakeups, k \in 1..MaxSignals :
    /\ (/\ backend \in {"none", "kqueue"}
        /\ pc = "ret"
        /\ ret >= 0
        /\ w \in WakeupsIn(fds)
        /\ sigAt[w] = "entry"
        /\ sigCount[w] = k)
         => /\ Reported(fds, w) = {{G_IO_IN}}
            /\ ret = NonEmpty(fds)
            /\ Cardinality({j \in 1..Len(fds) : WakeupOf(fds[j]) = w}) = 1
    /\ (/\ backend \in {"none", "kqueue"}
        /\ pc = "ret"
        /\ timeout = 0
        /\ ret >= 0
        /\ w \in WakeupsIn(fds)
        /\ absorbed[w] = k
        /\ ~dirty[w])
         => /\ NonPending(w)
            /\ Reported(fds, w) = {{}}

C3_Witness ==
  /\ backend = "kqueue"
  /\ pc = "ret"
  /\ timeout = 0
  /\ ret = 0
  /\ \E w \in WakeupsIn(fds) :
       absorbed[w] = MaxSignals /\ ~dirty[w] /\ ~concurrent[w] /\ pending[w] = 0

\* C4: on every build, when an acknowledge began after at least two signal
\* calls on the wakeup, some of them overlapping, had all returned, and no
\* signal call has begun since, the wakeup is not pending and a g_poll with
\* timeout 0 that does not fail does not report it: it returns 0, or the
\* wakeup's revents are empty.
C4_ConcurrentSignalsOneAck ==
  (pc = "ret" /\ timeout = 0 /\ ret >= 0) =>
    \A w \in WakeupsIn(fds) :
      (absorbed[w] >= 2 /\ concurrent[w] /\ ~dirty[w]) =>
        /\ NonPending(w)
        /\ ret = 0 \/ Reported(fds, w) = {{}}

C4_Witness ==
  /\ backend = "select"
  /\ pc = "ret"
  /\ timeout = 0
  /\ ret = 0
  /\ \E w \in WakeupsIn(fds) :
       /\ wfds[w][2] = -1
       /\ absorbed[w] >= 2
       /\ concurrent[w]
       /\ ~dirty[w]
       /\ wbuf[w] = 0

\* C9: select build: when g_poll returns 0, the revents of every entry are
\* empty.
C9_ZeroOnTimeout ==
  (backend = "select" /\ pc = "ret" /\ ret = 0) =>
    \A k \in 1..Len(fds) : fds[k].revents = {}

\* C10: select build: a positive return value of g_poll is the number of
\* entries whose revents are not empty.
C10_ReturnCountsEntries ==
  (backend = "select" /\ pc = "ret" /\ ret > 0) => ret = NonEmpty(fds)

\* C11: G_OS_NONE and kqueue builds: a return value of g_poll that is not
\* negative is the number of entries whose revents are not empty.
C11_ReturnCountsEntries ==
  (backend \in {"none", "kqueue"} /\ pc = "ret" /\ ret >= 0) => ret = NonEmpty(fds)

C11_Witness ==
  /\ backend = "kqueue"
  /\ pc = "ret"
  /\ ret = 1
  /\ Len(fds) = 1
  /\ fds[1].revents = {G_IO_IN, G_IO_OUT}

\* C18: G_OS_NONE build: when g_poll returns, the token field of every wakeup
\* of the set is NULL.
C18_TokenClearedOnExit ==
  (backend = "none" /\ pc = "ret") => \A w \in WakeupsIn(fds) : token[w] = NULL

C18_Witness ==
  /\ backend = "none"
  /\ pc = "ret"
  /\ nSleep = 1
  /\ ret = 0
  /\ timeout = 1
  /\ \E w \in WakeupsIn(fds) : token[w] = NULL

C20_QueueTornDown ==
  (backend = "kqueue" /\ pc = "ret") =>
    /\ kq = -1
    /\ \A w \in Wakeups : kqUser[w] = "absent"
    /\ \A w \in WakeupsIn(fds) : wkq[w] = -1

C20_Witness ==
  /\ backend = "kqueue"
  /\ pc = "ret"
  /\ ret = -1
  /\ kq = -1
  /\ \E w \in WakeupsIn(fds) : wkq[w] = -1 /\ pending[w] > 0

\* Entries of the set that are ready: a handle that is signalled, or the
\* message queue when input is waiting.
ReadyEntries(f) ==
  {k \in 1..Len(f) :
     IF f[k].fd = G_WIN32_MSG_HANDLE THEN msgReady ELSE f[k].fd \in hReady}

\* The fan-out can service the set.
Serviceable(f) ==
  /\ Len(f) > MAXIMUM_WAIT_OBJECTS
  /\ Len(f) <= MAXIMUM_WAIT_OBJECTS_PER_THREAD * MAXIMUM_WAIT_OBJECTS_PER_THREAD

\* C13: G_OS_WIN32 build: a fanned-out call on a set the fan-out can service,
\* during which exactly one entry was ready throughout and no wait failed,
\* returns 1 with non-empty revents on that entry only.
C13_FanOutOneReady ==
  (/\ backend = "win32"
   /\ pc = "ret"
   /\ Serviceable(fds)
   /\ hStable
   /\ \A t \in 1..nthreads : wret[t] # -1) =>
    \A k \in 1..Len(fds) :
      ReadyEntries(fds) = {k} =>
        /\ ret = 1
        /\ \A j \in 1..Len(fds) : fds[j].revents # {} <=> j = k

\* The same holds when the entry that is ready is a handle.
FanOutOneReadyHandle ==
  (/\ backend = "win32"
   /\ pc = "ret"
   /\ Serviceable(fds)
   /\ hStable
   /\ \A t \in 1..nthreads : wret[t] # -1) =>
    \A k \in 1..Len(fds) :
      (ReadyEntries(fds) = {k} /\ fds[k].fd # G_WIN32_MSG_HANDLE) =>
        /\ ret = 1
        /\ \A j \in 1..Len(fds) : fds[j].revents # {} <=> j = k

\* The four builds side by side, without the clock; the kevents of a
\* descriptor carry EV_EOF and EV_ERROR, and one thread signals.
InitFlags == InitNone \/ InitKq \/ InitUnix \/ InitWin

NextKqFlags ==
  \/ \E ps \in PollSetsKq, t \in {-1, 0}, q \in KqFds : KqPollStart(ps, t, q)
  \/ \E ps \in PollSetsKq, t \in {-1, 0} : KqPollStartFail(ps, t)
  \/ KqRegister
  \/ KqRegisterFail
  \/ KqRealizeNext
  \/ KqRealizeLock
  \/ KqRealizeBody
  \/ \E fl \in KqEventFlags : KqCollect(fl)
  \/ KqCollectFail
  \/ KqUnrealizeNext
  \/ KqUnrealizeLock
  \/ KqUnrealizeBody
  \/ PollReturn
  \/ \E w \in Wakeups : KqAcknowledgeLock(w)
  \/ KqAcknowledgeBody
  \/ \E w \in Wakeups : KqSignalCall(1, w)
  \/ KqSignalLock(1)
  \/ KqSignalBody(1)
  \/ \E r \in SUBSET {G_IO_IN, G_IO_OUT} : IoChange(r)

NextNoneOne ==
  \/ \E ps \in PollSetsNone, t \in {-1, 0}, a \in Tokens : NonePollStart(ps, t, a)
  \/ NoneRegister
  \/ NonePass
  \/ NoneDecide
  \/ SleepEnter
  \/ SleepReturnWoken
  \/ SleepReturnSpurious
  \/ NoneUnregister
  \/ PollReturn
  \/ \E w \in Wakeups : NoneAcknowledge(w)
  \/ \E w \in Wakeups : NoneSignalSet(1, w)
  \/ NoneSignalRead(1)
  \/ NoneSignalWake(1)

NextUnixOne ==
  \/ \E ps \in PollSetsUnix, t \in {-1, 0} : UnixPollStart(ps, t)
  \/ UnixSelectReturn
  \/ UnixSelectFail
  \/ PollReturn
  \/ \E w \in Wakeups : UnixAcknowledge(w)
  \/ UnixAcknowledgeRead
  \/ \E w \in Wakeups : UnixSignalCall(1, w)
  \/ UnixSignalWrite(1)
  \/ \E r \in SUBSET {G_IO_IN, G_IO_OUT} : IoChange(r)

\* The kqueue build with one signalling thread and no EV_EOF or EV_ERROR.
NextKqOne ==
  \/ \E ps \in PollSetsKq, t \in Timeouts, q \in KqFds : KqPollStart(ps, t, q)
  \/ \E ps \in PollSetsKq, t \in Timeouts : KqPollStartFail(ps, t)
  \/ KqRegister
  \/ KqRegisterFail
  \/ KqRealizeNext
  \/ KqRealizeLock
  \/ KqRealizeBody
  \/ \E fl \in {{}} : KqCollect(fl)
  \/ KqCollectFail
  \/ KqUnrealizeNext
  \/ KqUnrealizeLock
  \/ KqUnrealizeBody
  \/ PollReturn
  \/ \E w \in Wakeups : KqAcknowledgeLock(w)
  \/ KqAcknowledgeBody
  \/ \E w \in Wakeups : KqSignalCall(1, w)
  \/ KqSignalLock(1)
  \/ KqSignalBody(1)
  \/ \E r \in SUBSET {G_IO_IN, G_IO_OUT} : IoChange(r)

\* The three builds of GWakeup side by side, one thread signalling.
NextWakeupOne == NextNoneOne \/ NextKqOne \/ NextUnixOne

SpecWakeupOne == InitWakeup /\ [][NextWakeupOne]_vars

NextFlags == NextNoneOne \/ NextKqFlags \/ NextUnixOne \/ NextWin

SpecFlags == InitFlags /\ [][NextFlags]_vars

\* The conditions a result is made of.
ResultFlags == {G_IO_IN, G_IO_OUT, G_IO_PRI, G_IO_HUP, G_IO_ERR}

C14_AllOrNothing ==
  (/\ backend = "win32"
   /\ pc = "ret"
   /\ ret = -1 \/ \E t \in 1..nthreads : wret[t] = -1)
    => /\ ret = -1
       /\ \A k \in 1..Len(fds) : fds[k].revents = {}

\* A fanned-out call returned -1 because one worker failed, although another
\* worker had found a handle of its own signalled and counted it.
C14_Witness ==
  /\ backend = "win32"
  /\ pc = "ret"
  /\ ret = -1
  /\ \E t \in 1..nthreads : wret[t] = -1
  /\ \E u \in 1..nthreads : wret[u] >= 1
  /\ \A k \in 1..Len(fds) : fds[k].revents = {}

\* C15: under G_OS_WIN32 no wait is given more objects than
\* MAXIMUM_WAIT_OBJECTS: the handle array of the path without threads and of
\* every worker holds at most MAXIMUM_WAIT_OBJECTS handles, at most
\* MAXIMUM_WAIT_OBJECTS - 1 when the message queue is waited on with them, and
\* the caller's thread waits on at most MAXIMUM_WAIT_OBJECTS - 1 threads.
C15_WaitWithinCeiling ==
  backend = "win32" =>
    /\ pc \in {"w_first", "w_blocked"} =>
         Len(SingleData.handles)
           <= (IF SingleData.msg # 0
                 THEN MAXIMUM_WAIT_OBJECTS - 1 ELSE MAXIMUM_WAIT_OBJECTS)
    /\ pc \in {"w_wait", "w_join"} =>
         /\ nthreads <= MAXIMUM_WAIT_OBJECTS - 1
         /\ \A t \in 1..nthreads :
              /\ WorkerData(t).msg = 0
              /\ Len(WorkerData(t).handles) <= MAXIMUM_WAIT_OBJECTS

\* A set beyond what the threads can take is being polled: the caller's thread
\* waits on MAXIMUM_WAIT_OBJECTS - 1 threads, and a worker is blocked on a
\* full array of MAXIMUM_WAIT_OBJECTS handles, stop_fd among them.
C15_Witness ==
  /\ backend = "win32"
  /\ pc = "w_wait"
  /\ Len(fds) > MAXIMUM_WAIT_OBJECTS_PER_THREAD * MAXIMUM_WAIT_OBJECTS_PER_THREAD
  /\ nthreads = MAXIMUM_WAIT_OBJECTS - 1
  /\ \E t \in 1..nthreads :
       /\ wpc[t] = "blocked"
       /\ Len(WorkerData(t).handles) = MAXIMUM_WAIT_OBJECTS

\* C16: under G_OS_WIN32, when g_poll returns, every thread it started has
\* ended.
C16_WorkersJoined ==
  (backend = "win32" /\ pc = "ret") =>
    \A t \in Threads : wpc[t] \in {"unborn", "exited"}

\* A fanned-out call with a timeout returned 0: nothing was ready, the wait on
\* the threads timed out, and the stop event ended both workers.
C16_Witness ==
  /\ backend = "win32"
  /\ pc = "ret"
  /\ nthreads = MAXIMUM_WAIT_OBJECTS - 1
  /\ timeout = 1
  /\ ret = 0
  /\ hReady = {}
  /\ \A t \in 1..nthreads : wpc[t] = "exited"

\* C17: under G_OS_WIN32 a call on a set of more than
\* MAXIMUM_WAIT_OBJECTS_PER_THREAD * MAXIMUM_WAIT_OBJECTS_PER_THREAD entries
\* returns -1.
C17_OversizeFails ==
  (/\ backend = "win32"
   /\ pc = "ret"
   /\ Len(fds) > MAXIMUM_WAIT_OBJECTS_PER_THREAD * MAXIMUM_WAIT_OBJECTS_PER_THREAD)
    => ret = -1

\* A step of g_poll itself, in the G_OS_NONE, kqueue and select builds.
PollStep ==
  \/ \E ps \in PollSetsNone, t \in Timeouts, a \in Tokens : NonePollStart(ps, t, a)
  \/ NonePoller
  \/ SleepReturnWoken
  \/ SleepReturnTimeout
  \/ SleepReturnSpurious
  \/ \E ps \in PollSetsKq, t \in Timeouts, q \in KqFds : KqPollStart(ps, t, q)
  \/ \E ps \in PollSetsKq, t \in Timeouts : KqPollStartFail(ps, t)
  \/ KqRegister
  \/ KqRegisterFail
  \/ KqRealizeNext
  \/ KqRealizeLock
  \/ KqRealizeBody
  \/ \E fl \in KqEventFlags : KqCollect(fl)
  \/ KqCollectFail
  \/ KqUnrealizeNext
  \/ KqUnrealizeLock
  \/ KqUnrealizeBody
  \/ \E ps \in PollSetsUnix, t \in Timeouts : UnixPollStart(ps, t)
  \/ UnixSelectReturn
  \/ UnixSelectFail

\* C21: no step of g_poll changes whether a wakeup is pending: a wakeup that
\* is not pending stays so through registration and unregistration of the
\* call's token (of the call's queue), and one that is pending stays pending.
\* A step after which a wakeup is pending that was not, or the reverse, is no
\* step of g_poll.
C21_PollKeepsPending ==
  [][(\E w \in Wakeups : NonPending(w)' # NonPending(w)) => ~PollStep]_vars

\* A kqueue call on a wakeup signalled once has returned: realize has
\* counted the pending wakeup once more, unrealize has taken the queue away,
\* and the wakeup is pending as before.
C21_Witness ==
  /\ backend = "kqueue"
  /\ pc = "ret"
  /\ \E w \in WakeupsIn(fds) :
       /\ sigCount[w] = 1
       /\ pending[w] = 2
       /\ wkq[w] = -1

\* The fields of a wakeup that decide what g_poll and g_wakeup_signal do with
\* it; the mutex is left out.
WakeupState(w) ==
  <<signalled[w], token[w], pending[w], wkq[w], kqUser[w], wbuf[w], wfds[w]>>

\* A step of g_wakeup_acknowledge (w).
AcknowledgeStep(w) ==
  \/ NoneAcknowledge(w)
  \/ KqAcknowledgeLock(w)
  \/ aw = w /\ KqAcknowledgeBody
  \/ UnixAcknowledge(w)
  \/ aw = w /\ UnixAcknowledgeRead

\* C22: a step of g_wakeup_acknowledge taken on a wakeup that is not pending
\* changes nothing of the wakeup: it stays not pending, and g_poll and
\* g_wakeup_signal find it as they would have without the call.
C22_AcknowledgeNoOp ==
  [][\A w \in Wakeups :
       (NonPending(w) /\ AcknowledgeStep(w)) => WakeupState(w)' = WakeupState(w)]_vars

\* The kqueue wakeup was reported by a call and acknowledged; a second
\* g_wakeup_acknowledge, which began with no signal to take in, holds the
\* mutex and is about to run its body.
C22_Witness ==
  /\ backend = "kqueue"
  /\ pc = "k_ack"
  /\ pending[aw] = 0
  /\ absorbed[aw] = 0
  /\ sigCount[aw] = 0
  /\ Reported(fds, aw) = {{G_IO_IN}}

\* The next step of g_wakeup_signal in signaller s.
SignalStep(s) ==
  \/ NoneSignalRead(s)
  \/ NoneSignalWake(s)
  \/ KqSignalLock(s)
  \/ KqSignalBody(s)
  \/ UnixSignalWrite(s)

\* C23: g_wakeup_signal never blocks: a signaller that is inside the call can
\* take its next step in every state, whatever operation on the same wakeup
\* another thread is in the middle of, without that thread making progress.
C23_SignalNeverBlocks ==
  \A s \in Signallers : spc[s] # "idle" => ENABLED SignalStep(s)

\* The G_OS_NONE build linked without a platform definition of the hooks.
InitWeak ==
  /\ hooks = "weak"
  /\ backend = "none"
  /\ wfds = [w \in Wakeups |-> <<-1, -1>>]
  /\ spuriousHook = FALSE
  /\ InitCommon

NextWeak ==
  \/ \E ps \in PollSetsNone, t \in Timeouts, a \in Tokens : NonePollStart(ps, t, a)
  \/ NoneRegister
  \/ NonePass
  \/ NoneDecide
  \/ WeakSleep
  \/ NoneUnregister
  \/ PollReturn
  \/ \E w \in Wakeups : NoneAcknowledge(w)
  \/ \E s \in Signallers, w \in Wakeups : NoneSignalSet(s, w)
  \/ \E s \in Signallers : NoneSignalRead(s)
  \/ \E s \in Signallers : WeakWake(s)

SpecWeak == InitWeak /\ [][NextWeak]_vars

\* C24: with the weak hooks, a g_poll that reaches g_wait_sleep and a
\* g_wakeup_signal that reaches g_wait_wake go nowhere but to the fatal error:
\* the call does not go on as if it had slept, the signal does not return as
\* if it had woken a sleeper, and nothing runs after the error.
C24_WeakHooksAbort ==
  [][/\ pc = "n_sleep" => pc' \in {"n_sleep", "abort"}
     /\ \A s \in Signallers : spc[s] = "s_wake" => spc'[s] \in {"s_wake", "abort"}
     /\ pc = "abort" => vars' = vars]_vars

\* A call with timeout -1 found nothing ready and died in g_wait_sleep.
C24_Witness ==
  /\ hooks = "weak"
  /\ pc = "abort"
  /\ nSleep = 1
  /\ timeout = -1
  /\ ready = 0

\* A signal found the token of the call in flight and died in g_wait_wake.
WeakWakeAborted ==
  /\ hooks = "weak"
  /\ pc = "abort"
  /\ nSleep = 0
  /\ \E s \in Signallers : st[s] # NULL /\ st[s] = tok

\* No worker thread of the fanned-out call has a msg_fd to wait on.
WorkersWithoutMsg ==
  (backend = "win32" /\ nthreads > 0) => \A t \in 1..nthreads : WorkerData(t).msg = 0

\* C25: G_OS_WIN32 build, fanned-out call on a set with a message-queue
\* entry: no worker thread waits on the message queue, only the caller's
\* thread does; and when input was waiting in the queue for the whole call and
\* no wait failed, the call returns with G_IO_IN on that entry and counts it
\* once, on top of what the workers report.
C25_MessageRouting ==
  (backend = "win32" /\ nthreads > 0 /\ MsgFd # 0) =>
    /\ \A t \in 1..nthreads : WorkerData(t).msg = 0
    /\ (/\ pc = "ret"
        /\ msgReady
        /\ hStable
        /\ \A t \in 1..nthreads : wret[t] # -1) =>
         /\ G_IO_IN \in fds[MsgFd].revents
         /\ ret = SumRet(nthreads) + 1

\* The eventfd / pipe wakeup after any number of g_wakeup_signal calls: the
\* counter holds their number, the pipe one byte of each until it is full.
InitDrain ==
  /\ hooks = "platform"
  /\ backend = "select"
  /\ spuriousHook = FALSE
  /\ wfds \in [Wakeups -> {<<WakeFd, -1>>, <<WakeFd, WakeFd + 1>>}]
  /\ InitIdle
  /\ wbuf \in [Wakeups -> 0..PipeCapacity]
  /\ dirty = [w \in Wakeups |-> wbuf[w] > 0]

NextDrain ==
  \/ \E w \in Wakeups : UnixAcknowledge(w)
  \/ UnixAcknowledgeRead
  \/ \E s \in Signallers, w \in Wakeups : UnixSignalCall(s, w)
  \/ \E s \in Signallers : UnixSignalWrite(s)

\* Every thread that is inside a call keeps running.
SpecDrainFair ==
  /\ InitDrain
  /\ [][NextDrain]_vars
  /\ WF_vars(UnixAcknowledgeRead)
  /\ \A s \in Signallers : WF_vars(UnixSignalWrite(s))

\* C26: eventfd / pipe wakeup.  Every g_wakeup_signal returns, also on a full
\* pipe; every g_wakeup_acknowledge returns; once an acknowledge that no
\* signal call overlapped or followed has returned the descriptor is not
\* readable, whatever it held before; and a signal whose write came after the
\* last read of the acknowledge leaves the descriptor readable.
C26_DrainTerminates ==
  /\ \A s \in Signallers : (spc[s] = "u_write") ~> (spc[s] = "idle")
  /\ (pc = "u_ack") ~> (pc = "idle")
  /\ [](\A w \in Wakeups :
          (pc # "u_ack" /\ ~dirty[w]) => ~Readable(wfds[w][1]))
  /\ [](\A w \in Wakeups :
          (pc # "u_ack" /\ sigCount[w] > 0) => Readable(wfds[w][1]))

\* An acknowledge with no signal call around it is about to read the pipe,
\* which holds exactly one buffer of bytes: this read fills the buffer and the
\* next one finds the pipe empty.
C26_Witness ==
  /\ backend = "select"
  /\ pc = "u_ack"
  /\ wfds[aw][2] # -1
  /\ wbuf[aw] = BufferSize
  /\ ~dirty[aw]

\* A signal call is about to write to a pipe that is full.
SignalOnFullPipe ==
  \E s \in Signallers :
    /\ spc[s] = "u_write"
    /\ wfds[sw[s]][2] # -1
    /\ wbuf[sw[s]] = PipeCapacity

\* The select emulation on sets with entries that ask for nothing and
\* entries with a negative descriptor; HighFd is above every other descriptor.
HighFd == PlainFd + 1

ZeroEntry(fd) == [fd |-> fd, events |-> {}, revents |-> {}, user_data |-> NULL]

NegativeEntry == [fd |-> -1, events |-> {G_IO_IN}, revents |-> {}, user_data |-> NULL]

SelectEntries ==
  {PlainEntryOf({G_IO_IN, G_IO_OUT}), PlainEntry, ZeroEntry(PlainFd), ZeroEntry(HighFd),
   NegativeEntry}

PollSetsSelect ==
  {<<a>> : a \in SelectEntries} \cup {<<a, b>> : a \in SelectEntries, b \in SelectEntries}

NextSelect ==
  \/ \E ps \in PollSetsSelect, t \in Timeouts : UnixPollStart(ps, t)
  \/ UnixSelectReturn
  \/ UnixSelectFail
  \/ PollReturn
  \/ \E r \in SUBSET {G_IO_IN, G_IO_OUT} : IoChange(r)

SpecSelect == InitUnix /\ [][NextSelect]_vars

\* The set without its entry k.
Without(f, k) == SubSeq(f, 1, k - 1) \o SubSeq(f, k + 1, Len(f))

\* Entry k takes no part in what is handed to select.
NotHandedToSelect(f, k) ==
  /\ \A ev \in {G_IO_IN, G_IO_OUT, G_IO_PRI} : FdSet(f, ev) = FdSet(Without(f, k), ev)
  /\ MaxFd(f) = MaxFd(Without(f, k))

\* C27: select emulation: an entry that asks for nothing, or whose descriptor
\* is negative, adds nothing to the three sets and does not raise maxfd, and
\* when the call returns its revents are 0.
C27_ZeroRequestSkipped ==
  backend = "select" =>
    \A k \in 1..Len(fds) :
      (fds[k].events = {} \/ fds[k].fd < 0) =>
        /\ pc = "u_select" => NotHandedToSelect(fds, k)
        /\ (pc = "ret" /\ ret >= 0) => fds[k].revents = {}

\* The first half alone.
ZeroRequestNotHanded ==
  (backend = "select" /\ pc = "u_select") =>
    \A k \in 1..Len(fds) :
      (fds[k].events = {} \/ fds[k].fd < 0) => NotHandedToSelect(fds, k)

\* The second half for the calls that write results, on sets that name no
\* descriptor twice.
ZeroRequestZeroed ==
  (backend = "select" /\ pc = "ret" /\ ret > 0) =>
    \A k \in 1..Len(fds) :
      (/\ fds[k].events = {} \/ fds[k].fd < 0
       /\ \A j \in 1..Len(fds) : j # k => fds[j].fd # fds[k].fd) =>
        fds[k].revents = {}

\* The second half for the calls that write results.
ZeroRequestZeroedWritten ==
  (backend = "select" /\ pc = "ret" /\ ret > 0) =>
    \A k \in 1..Len(fds) :
      (fds[k].events = {} \/ fds[k].fd < 0) => fds[k].revents = {}

\* The G_OS_NONE build with the clock and one signalling thread.
NextNoneTimedOne ==
  \/ \E ps \in PollSetsNone, t \in Timeouts, a \in Tokens : NonePollStart(ps, t, a)
  \/ NonePoller
  \/ SleepReturnWoken
  \/ SleepReturnTimeout
  \/ SleepReturnSpurious
  \/ PollReturn
  \/ \E w \in Wakeups : NoneAcknowledge(w)
  \/ \E w \in Wakeups : NoneSignalSet(1, w)
  \/ NoneSignalRead(1)
  \/ NoneSignalWake(1)
  \/ Tick

\* The polling thread is scheduled.
SpecNoneTimedFair ==
  /\ InitNone
  /\ [][NextNoneTimedOne]_vars
  /\ WF_vars(NonePoller)

\* C28: G_OS_NONE build: a call invokes g_wait_sleep at most once and makes at
\* most two readiness passes; once g_wait_sleep has returned, for whatever
\* reason, the call does not sleep again and it returns.
C28_OneSuspension ==
  /\ [](nSleep <= 1 /\ nPass <= 2)
  /\ []((slept /\ InCall) => pc \in {"n_pass", "n_unreg"})
  /\ (slept /\ InCall) ~> (pc = "ret")

\* g_wait_sleep returned because the timeout expired; the second pass found
\* nothing and the call returned 0.
C28_Witness ==
  /\ backend = "none"
  /\ pc = "ret"
  /\ nSleep = 1
  /\ nPass = 2
  /\ timeout = 1
  /\ now >= deadline
  /\ ret = 0

\* C29: G_OS_NONE build: a signaller that is about to invoke g_wait_wake (t)
\* holds the token of the g_poll call in flight; the call whose token it read
\* has not returned.
C29_WakeTokenInFlight ==
  \A s \in Signallers :
    (backend = "none" /\ spc[s] = "s_wake") => (InCall /\ tok = st[s])

\* C30: kqueue build: a g_wakeup_signal that takes effect while the call is in
\* flight, before the change list with the user event is registered, between
\* the registration and _g_wakeup_kqueue_realize, or while the call waits in
\* the collecting kevent, is reported: the call, unless it fails, returns
\* with G_IO_IN on the wakeup's entry.
C30_KqWakeNotLost ==
  (backend = "kqueue" /\ pc = "ret" /\ ret # -1) =>
    \A w \in WakeupsIn(fds) :
      sigAt[w] \in {"reg", "check", "parked"} => Reported(fds, w) = {{G_IO_IN}}

\* The signal came between the registration and the realize.
C30_Witness ==
  /\ backend = "kqueue"
  /\ pc = "ret"
  /\ ret = 1
  /\ timeout = -1
  /\ \E w \in WakeupsIn(fds) : sigAt[w] = "check" /\ Reported(fds, w) = {{G_IO_IN}}

\* The signal came before the registration.
KqWakeBeforeRegister ==
  /\ backend = "kqueue"
  /\ pc = "ret"
  /\ ret = 1
  /\ \E w \in WakeupsIn(fds) : sigAt[w] = "reg" /\ Reported(fds, w) = {{G_IO_IN}}

\* The signal came while the call waited in kevent.
KqWakeWhileCollecting ==
  /\ backend = "kqueue"
  /\ pc = "ret"
  /\ ret = 1
  /\ timeout = -1
  /\ \E w \in WakeupsIn(fds) : sigAt[w] = "parked" /\ Reported(fds, w) = {{G_IO_IN}}

\* C31: kqueue build: once the queue is open, the call reaches its exit with
\* the revents of this call only: after a failure or a timeout every revents
\* is 0, and a wakeup entry is flagged only if its user event is triggered on
\* the queue of this call.
C31_KqZeroedOnExit ==
  (backend = "kqueue" /\ pc \in {"k_unrealize", "k_unrealize_cs"}) =>
    /\ ready <= 0 => \A k \in 1..Len(fds) : fds[k].revents = {}
    /\ \A k \in 1..Len(fds) :
         (IsWakeup(fds[k]) /\ fds[k].revents # {}) => kqUser[fds[k].user_data] = "triggered"

\* The same for the calls whose change list was registered.
KqZeroedAfterCollect ==
  (backend = "kqueue" /\ pc \in {"k_unrealize", "k_unrealize_cs"}
     /\ \A w \in WakeupsIn(fds) : kqUser[w] # "absent") =>
    /\ ready <= 0 => \A k \in 1..Len(fds) : fds[k].revents = {}
    /\ \A k \in 1..Len(fds) :
         (IsWakeup(fds[k]) /\ fds[k].revents # {}) => kqUser[fds[k].user_data] = "triggered"

\* The kqueue build on descriptors that ask for every combination of G_IO_IN,
\* G_IO_OUT and G_IO_PRI; the events of a call carry any of the flags.
PollSetsKqFlags == {<<PlainEntryOf(ev)>> : ev \in SUBSET {G_IO_IN, G_IO_OUT, G_IO_PRI}}

KqEventFlagsAll == KqEventFlags \cup {{"EV_OOBAND"}, {"EV_EOF", "EV_OOBAND"}}

NextKqRequested ==
  \/ \E ps \in PollSetsKqFlags, t \in {-1, 0}, q \in KqFds : KqPollStart(ps, t, q)
  \/ \E ps \in PollSetsKqFlags, t \in {-1, 0} : KqPollStartFail(ps, t)
  \/ KqRegister
  \/ \E fl \in KqEventFlagsAll : KqCollect(fl)
  \/ KqCollectFail
  \/ KqUnrealizeNext
  \/ PollReturn
  \/ \E r \in SUBSET {G_IO_IN, G_IO_OUT, G_IO_PRI} : IoChange(r)

SpecKqRequested == InitKq /\ [][NextKqRequested]_vars

\* G_IO_IN, G_IO_OUT and G_IO_PRI are reported only if asked for.
OnlyRequested(k) ==
  fds'[k].revents \cap {G_IO_IN, G_IO_OUT, G_IO_PRI} \subseteq fds[k].events

\* C32, as stated: every event of a descriptor that carries EV_EOF gives
\* G_IO_HUP and every event that carries EV_ERROR gives G_IO_ERR, whatever
\* the entry asked for, and G_IO_IN, G_IO_OUT, G_IO_PRI are reported only if
\* asked for.
C32_HupErrAsStated ==
  [][\A fl \in KqEventFlagsAll :
       KqCollect(fl) =>
         \A k \in 1..Len(fds) :
           /\ OnlyRequested(k)
           /\ (\E e \in KqActive(fds) : e[2] = k /\ e[1] # "EVFILT_USER") =>
                /\ "EV_EOF" \in fl => G_IO_HUP \in fds'[k].revents
                /\ "EV_ERROR" \in fl => G_IO_ERR \in fds'[k].revents]_vars

\* C32, per filter: EV_EOF gives G_IO_HUP on a read or except event (and
\* G_IO_ERR on a read event with fflags) and G_IO_ERR on a write event;
\* EV_ERROR gives G_IO_ERR on every event; all of it whatever the entry asked
\* for, while G_IO_IN, G_IO_OUT, G_IO_PRI are reported only if asked for.
C32_HupErrPerFilter ==
  [][\A fl \in KqEventFlagsAll :
       KqCollect(fl) =>
         \A k \in 1..Len(fds) :
           LET rd == <<"EVFILT_READ", k>> \in KqActive(fds)
               wr == <<"EVFILT_WRITE", k>> \in KqActive(fds)
               ex == <<"EVFILT_EXCEPT", k>> \in KqActive(fds)
               r == fds'[k].revents
           IN /\ OnlyRequested(k)
              /\ G_IO_HUP \in r <=> ((rd \/ ex) /\ "EV_EOF" \in fl)
              /\ G_IO_ERR \in r <=>
                   \/ (rd \/ wr \/ ex) /\ "EV_ERROR" \in fl
                   \/ wr /\ "EV_EOF" \in fl
                   \/ rd /\ "EV_EOF" \in fl /\ "fflags" \in fl]_vars

\* An entry that asked for G_IO_OUT alone came back with G_IO_ERR.
C32_Witness ==
  /\ backend = "kqueue"
  /\ pc = "ret"
  /\ \E k \in 1..Len(fds) :
       fds[k].events = {G_IO_OUT} /\ fds[k].revents = {G_IO_OUT, G_IO_ERR}

\* The entries handed to thread t: fds + fds_idx, thread_fds of them.
Group(t) == ChunkLo(t)..ChunkHi(Len(fds), nthreads, t)

\* The groups are ceil(N / (C - 1)) in number, each holds at most C - 1 entries
\* and the stop event, and every entry of the set is in exactly one of them.
Partitioned ==
  /\ nthreads = NThreadsUncapped(Len(fds))
  /\ \A t \in 1..nthreads :
       /\ Cardinality(Group(t)) <= MAXIMUM_WAIT_OBJECTS_PER_THREAD
       /\ Len(WorkerData(t).handles) <= MAXIMUM_WAIT_OBJECTS
       /\ WorkerData(t).handles[1] = 0
  /\ \A k \in 1..Len(fds) : Cardinality({t \in 1..nthreads : k \in Group(t)}) = 1

\* C33: G_OS_WIN32 build: a call on more than MAXIMUM_WAIT_OBJECTS entries
\* partitions the set among its threads.
C33_FanOutPartition ==
  (backend = "win32" /\ nthreads > 0) => Partitioned

\* The same for the sets the thread handles can be waited for.
FanOutPartitionServiceable ==
  (backend = "win32" /\ nthreads > 0 /\ Serviceable(fds)) => Partitioned

\* The wait of the coordinator returns because a thread handle is signalled
\* or the timeout has run out.
WinCoordWaitDue ==
  /\ JoinReadyAny \/ timeout # INFINITE
  /\ \E mfirst \in BOOLEAN : WinCoordWait(mfirst)

\* The sets that are polled by threads.
PollSetsWinFan == {WinSet(MAXIMUM_WAIT_OBJECTS + 1, m) : m \in {0, 1}}

NextWinFan ==
  \/ \E ps \in PollSetsWinFan, t \in Timeouts : WinPollStart(ps, t)
  \/ \E t \in Threads : WinWorkerFirst(t)
  \/ \E t \in Threads, p \in 0..MAXIMUM_WAIT_OBJECTS : WinWorkerFirstFail(t, p)
  \/ \E t \in Threads : WinWorkerWake(t)
  \/ \E t \in Threads : WinWorkerReturn0(t)
  \/ \E t \in Threads : WinWorkerFail(t)
  \/ \E mfirst \in BOOLEAN : WinCoordWait(mfirst)
  \/ WinCoordJoin
  \/ PollReturn
  \/ \E h \in WinHandles : HandleSignal(h)
  \/ MsgArrive
  \/ WinEnvReset

\* Every thread that can run does run, and a wait whose object is signalled
\* or whose timeout has run out returns. A wait that returns for another
\* reason (WAIT_IO_COMPLETION, WAIT_FAILED) may never do so.
SpecWinFair ==
  /\ InitWin
  /\ [][NextWinFan]_vars
  /\ WF_vars(WinCoordWaitDue)
  /\ WF_vars(WinCoordJoin)
  /\ \A t \in 1..MAXIMUM_WAIT_OBJECTS_PER_THREAD :
       WF_vars(WinWorkerFirst(t)) /\ WF_vars(WinWorkerWake(t))

\* C34: G_OS_WIN32 build, more than MAXIMUM_WAIT_OBJECTS entries: once a
\* thread has exited or the timeout has run out, the stop event is set, every
\* thread exits and g_poll returns.
C34_FanOutReturns ==
  (backend = "win32" /\ pc = "w_wait" /\ (JoinReadyAny \/ timeout # INFINITE))
    ~> (pc = "ret" /\ stopSet /\ JoinReady)

\* The stop event is set while a thread with an infinite timeout has not
\* started to wait.
C34_Witness ==
  /\ backend = "win32"
  /\ pc = "w_join"
  /\ stopSet
  /\ timeout = INFINITE
  /\ \E t \in 1..nthreads : wpc[t] = "start"
  /\ \E t \in 1..nthreads : wpc[t] = "blocked"

\* The entries of thread t's group that the thread has reported.
GroupReported(t) == {k \in Group(t) : k # MsgFd /\ fds[k].revents # {}}

\* C35: G_OS_WIN32 build, more than MAXIMUM_WAIT_OBJECTS entries: the stop event
\* is not counted by the thread it wakes, and an entry of the set has a
\* non-empty revents only if its own handle is signalled (the message queue:
\* only if input is waiting).
C35_StopInvisible ==
  (backend = "win32" /\ nthreads > 0 /\ pc \in {"w_wait", "w_join", "ret"}) =>
    /\ \A t \in 1..nthreads :
         (wpc[t] = "exited" /\ wret[t] >= 0 /\ ~(pc = "ret" /\ ret = -1)) =>
           wret[t] = Cardinality(GroupReported(t))
    /\ \A t \in 1..nthreads : \A k \in Group(t) :
         fds[k].revents # {} =>
           \/ fds[k].fd \in hReady
           \/ k = MsgFd /\ msgReady
    /\ (pc = "ret" /\ ret >= 0) =>
         ret = Cardinality(UNION {GroupReported(t) : t \in 1..nthreads})
               + (IF cready = "msg" THEN 1 ELSE 0)

\* A call with an infinite timeout has returned one ready entry, and a thread
\* whose handle is signalled was ended by the stop event and reports nothing.
C35_Witness ==
  /\ backend = "win32"
  /\ pc = "ret"
  /\ nthreads > 0
  /\ timeout = INFINITE
  /\ stopSet
  /\ ret = 1
  /\ \E t \in 1..nthreads :
       /\ wret[t] = 0
       /\ GroupReported(t) = {}
       /\ \E k \in Group(t) : fds[k].fd \in hReady

\* The entries of the set whose handle was waited for and is signalled.
SignalledHandles ==
  {k \in 1..Len(fds) :
     /\ \E q \in 1..Len(SingleData.handles) : SingleData.handles[q] = k
     /\ fds[k].fd \in hReady}

\* A call without threads and with timeout 0 has returned, and no handle or
\* message arrived while it ran.
SingleNowReturned ==
  /\ backend = "win32"
  /\ pc = "ret"
  /\ nthreads = 0
  /\ timeout = 0
  /\ hStable
  /\ ret >= 0

\* C36: G_OS_WIN32 build, at most MAXIMUM_WAIT_OBJECTS entries, timeout 0:
\* every signalled handle of the set gets revents = events, and the return
\* value is their number, plus 1 if input is waiting in the message queue.
C36_AllSignalledReported ==
  SingleNowReturned =>
    /\ \A k \in SignalledHandles : fds[k].revents = fds[k].events
    /\ ret = Cardinality(SignalledHandles)
             + (IF SingleData.msg # 0 /\ msgReady THEN 1 ELSE 0)

\* The same with the message queue counted when its entry was flagged.
SignalledHandlesReported ==
  SingleNowReturned =>
    /\ \A k \in SignalledHandles : fds[k].revents = fds[k].events
    /\ ret = Cardinality(SignalledHandles)
             + (IF SingleData.msg # 0 /\ fds[SingleData.msg].revents # {}
                  THEN 1 ELSE 0)
    /\ (SingleData.msg # 0 /\ SignalledHandles = {}) =>
         (fds[SingleData.msg].revents # {} <=> msgReady)

\* wakeup->kq of w is -1 or the queue of the call in flight, which is open.
KqFieldOpen(w) == wkq[w] # -1 => (kq # -1 /\ wkq[w] = kq /\ InCall)

\* C37: HAVE_KQUEUE build, one polling thread: wakeup->kq is -1 or names the
\* open queue of the g_poll in flight, so the kevent of g_wakeup_signal and of
\* g_wakeup_acknowledge is never issued on a queue that was closed.
C37_KqFieldOpen ==
  backend = "kqueue" =>
    /\ \A w \in Wakeups : KqFieldOpen(w)
    /\ \A s \in Signallers : spc[s] = "k_signal" => KqFieldOpen(sw[s])
    /\ pc = "k_ack" => KqFieldOpen(aw)

\* A signaller holds the mutex and is about to trigger the event on the queue
\* of the waiting call.
C37_Witness ==
  /\ backend = "kqueue"
  /\ pc = "k_collect"
  /\ \E s \in Signallers :
       /\ spc[s] = "k_signal"
       /\ wkq[sw[s]] # -1
       /\ wkq[sw[s]] = kq

\* g_poll is called again and again on a wakeup that is not acknowledged.
NextKqWrap ==
  \/ \E w \in Wakeups, q \in KqFds : KqPollStartBody(<<KqWakeEntry(w)>>, 0, q)
  \/ KqRegister
  \/ KqRealizeNext
  \/ KqRealizeLock
  \/ KqRealizeBody
  \/ \E fl \in {{}} : KqCollect(fl)
  \/ KqUnrealizeNext
  \/ KqUnrealizeLock
  \/ KqUnrealizeBody
  \/ PollReturn
  \/ \E w \in Wakeups : KqAcknowledgeLock(w)
  \/ KqAcknowledgeBody
  \/ \E w \in Wakeups : KqSignalCall(1, w)
  \/ KqSignalLock(1)
  \/ KqSignalBody(1)

SpecKqWrap == InitKq /\ [][NextKqWrap]_vars

\* C38: HAVE_KQUEUE build: wakeup->pending is non-zero exactly when
\* g_wakeup_signal was called since the last g_wakeup_acknowledge.
C38_PendingIffSignalled ==
  backend = "kqueue" =>
    \A w \in Wakeups : pending[w] # 0 <=> sigCount[w] > 0

\* The same while the counter has been incremented fewer than 2^GUINT_BITS - 1
\* times since the last acknowledge.
PendingIffSignalledBelowWrap ==
  (backend = "kqueue" /\ \A w \in Wakeups : pending[w] < PendingModulus - 1) =>
    \A w \in Wakeups : pending[w] # 0 <=> sigCount[w] > 0

\* C39: G_OS_NONE build: when g_poll returns, every entry that is not a
\* wakeup has revents = 0, the return value counts the wakeup entries
\* reported, and it is 0 when no wakeup of the set is signalled.
C39_OnlyWakeupsReady ==
  (backend = "none" /\ pc = "ret") =>
    /\ \A k \in 1..Len(fds) : ~IsWakeup(fds[k]) => fds[k].revents = {}
    /\ ret = Cardinality({k \in 1..Len(fds) : IsWakeup(fds[k]) /\ fds[k].revents # {}})
    /\ (\A w \in WakeupsIn(fds) : ~signalled[w]) => ret = 0

\* A call on a descriptor and a signalled wakeup has returned 1.
C39_Witness ==
  /\ backend = "none"
  /\ pc = "ret"
  /\ Len(fds) = 2
  /\ ~IsWakeup(fds[1])
  /\ fds[1].events # {}
  /\ fds[1].revents = {}
  /\ IsWakeup(fds[2])
  /\ fds[2].revents = {G_IO_IN}
  /\ ret = 1

====
